---------------------------- MODULE Spec2Model ----------------------------
(***************************************************************************)
(* A model of tuinix: the Terminal owner (terminal.rs), the frame buffer   *)
(* (frame.rs), the style value (style.rs), the geometry primitives         *)
(* (geometry.rs) and the input parser and reader (input.rs).               *)
(*                                                                         *)
(* The module holds several specifications over one set of variables, one  *)
(* per subsystem; the variables of the other subsystems keep their initial *)
(* values:                                                                 *)
(*   Spec       the Terminal lifecycle: new, drop, SIGWINCH, descriptors   *)
(*   SpecStyle  a TerminalStyle built, written by Display, read by FromStr *)
(*   SpecStyleParse  FromStr on texts with and without the writer's form *)
(*   SpecFrame  two TerminalFrames written into and drawn onto each other  *)
(*   SpecDraw   frames drawn on a live Terminal, and what its tty shows     *)
(*   SpecWrite  a TerminalFrame as a text sink, one write_str call at a time*)
(*   SpecInput  an InputReader fed bytes and read, one loop turn at a time *)
(*   SpecInputLive  the same reader, with its loop scheduled               *)
(*   SpecFill   the same reader, fed a mouse report that does not end    *)
(*   SpecParse  parse_input applied to the byte forms of keys and mouse   *)
(*              reports                                                    *)
(*   SpecModifier  parse_input on modified keys with any modifier byte     *)
(*   SpecPoll   poll_event over stdin and the SIGWINCH pipe, step by step  *)
(*   SpecPollLive  the same, with poll_event called again and again        *)
(***************************************************************************)
EXTENDS Integers, Sequences, FiniteSets, TLC

VARIABLES
    \* ---- process-wide state of terminal.rs
    TERMINAL_EXISTS,    \* static TERMINAL_EXISTS: AtomicBool
    SIGWINCH_PIPE_FD,   \* static mut SIGWINCH_PIPE_FD: RawFd
    handler,            \* is handle_sigwinch the disposition of SIGWINCH
    terminals,          \* the Terminal values that are alive
    \* ---- the operating system, as far as the Terminal touches it
    fdtab,              \* the descriptor table: what each number is open on
    termios,            \* the tty's attributes
    altScreen,          \* is the tty showing the alternate screen
    cursorVisible,      \* is the tty's cursor shown
    strayWrite,         \* has a byte been written to a file that is no signal pipe
    \* ---- observation of the last operation
    last,               \* the last operation and its result
    dropped,            \* has some Terminal been dropped
    \* ---- a TerminalStyle value on its way through Display and FromStr
    style,              \* the TerminalStyle value
    styleText,          \* what Display wrote for it
    styleParsed,        \* what FromStr returned for that text
    stylePhase,         \* "build", "shown" or "parsed"
    \* ---- two TerminalFrame values of an application
    main,               \* a frame the application writes and composes into
    sub,                \* a second frame, composed into the first and back
    flast,              \* the last frame operation: its name, position, result
    \* ---- the drawing state of a live Terminal and what its tty shows
    last_frame,         \* Terminal::last_frame
    cursor,             \* Terminal::cursor: a position, or None
    screen,             \* the tty once it has read all that was written to it
    dlast,              \* the last operation: its result, what a draw wrote
    lastOk,             \* the frame of the last draw that returned Ok, or None
    drawFailed,         \* has a draw returned an error
    \* ---- a TerminalFrame as a text sink
    wframe,             \* the frame written into
    wlast,              \* the last write_str call: its string, its result, and
                        \* the tail and the pending sequence it started from
    \* ---- an InputReader, its byte source and the caller of read_input
    source,             \* the bytes the inner reader has not returned yet
    closed,             \* has the inner reader reached its end
    buf,                \* InputReader::buf[..buf_offset]
    rpc,                \* where read_input stands
    fed,                \* the events whose bytes went into the source, in order
    junk,               \* have bytes that are no event's gone into the source
    yielded,            \* the events read_input has returned, in order
    ilast,              \* the last step: the bytes parsed and the result
    overflow_checks,    \* the build profile: does integer overflow panic
    \* ---- a live Terminal in poll_event, its signal pipe and the clock
    ppc,                \* where poll_event stands
    sigpipe,            \* the bytes in the SIGWINCH pipe
    sigwinches,         \* the SIGWINCH deliveries so far
    resizes,            \* the Resize events poll_event has returned
    ptimeout,           \* the timeout argument of the call, or None
    elapsed,            \* start_time.elapsed()
    entered,            \* the value of elapsed when select was entered
    tv,                 \* the timeout select was given, or None for a null pointer
    readfds,            \* the descriptors select reported as readable
    selfails,           \* the failures of select that no SIGWINCH caused
    plast               \* the last step of poll_event, what it returned, and how
                        \* often select was interrupted in the call so far

termVars == <<TERMINAL_EXISTS, SIGWINCH_PIPE_FD, handler, terminals, fdtab,
              termios, altScreen, cursorVisible, strayWrite, last, dropped>>

styleVars == <<style, styleText, styleParsed, stylePhase>>

frameVars == <<main, sub, flast>>

drawVars == <<last_frame, cursor, screen, dlast, lastOk, drawFailed>>

writeVars == <<wframe, wlast>>

inputVars == <<source, closed, buf, rpc, fed, junk, yielded, ilast, overflow_checks>>

\* The subsystems that have a specification of their own further down.
pollVars == <<ppc, sigpipe, sigwinches, resizes, ptimeout, elapsed, entered, tv,
              readfds, selfails, plast>>

laterVars == <<writeVars, inputVars, pollVars>>

vars == <<termVars, styleVars, frameVars, drawVars, laterVars>>

notTermVars == <<styleVars, frameVars, drawVars, laterVars>>
notStyleVars == <<termVars, frameVars, drawVars, laterVars>>
notFrameVars == <<termVars, styleVars, drawVars, laterVars>>
notLaterVars == <<termVars, styleVars, frameVars, drawVars>>
notWriteVars == <<notLaterVars, inputVars, pollVars>>
notInputVars == <<notLaterVars, writeVars, pollVars>>
notPollVars == <<notLaterVars, writeVars>>

---------------------------------------------------------------------------
(* Bounds *)

\* The descriptor numbers of the process are 0 .. MaxFd.
MaxFd == 6

\* A write_str call gets a string of at most MaxWrite pieces (a piece is one
\* plain character, a style sequence or a part of one).
MaxWrite == 1

\* Writes that would move cursor_tail past row MaxRow, or more than MaxOver
\* columns past the right edge of the frame, or grow the pending escape
\* sequence past MaxEscape characters, are not made.
MaxRow == 1
MaxOver == 1
MaxEscape == 6

\* The tty shows ScreenRows rows of ScreenCols columns.
ScreenRows == 2
ScreenCols == 3

Fds == 0 .. MaxFd

---------------------------------------------------------------------------
(* The tty and the descriptor table *)

\* The attributes enable_raw_mode touches: ECHO, ICANON and OPOST stand for
\* the flags it clears, CS8 for the one it sets.
TermiosFlags == {"ECHO", "ICANON", "OPOST", "CS8"}

\* The attribute values a tty may have when the program starts.
InitialTermios == {{"ECHO", "ICANON", "OPOST", "CS8"}, {"ICANON", "OPOST"}, {"CS8"}}

\* What enable_raw_mode computes from the saved attributes.
RawOf(t) == (t \ {"ECHO", "ICANON", "OPOST"}) \cup {"CS8"}

FreeFds(tab) == {fd \in Fds : tab[fd] = "closed"}

\* The kernel hands out the lowest free descriptor number.
LowestFree(tab) == CHOOSE fd \in FreeFds(tab) : \A g \in FreeFds(tab) : fd <= g

\* pipe(2): the read end is the lowest free number, the write end the next.
PipeRead(tab) == LowestFree(tab)
PipeWrite(tab) == LowestFree([tab EXCEPT ![PipeRead(tab)] = "pipe_r"])
AfterPipe(tab) == [tab EXCEPT ![PipeRead(tab)] = "pipe_r", ![PipeWrite(tab)] = "pipe_w"]

CloseFd(tab, fd) == IF fd \in Fds THEN [tab EXCEPT ![fd] = "closed"] ELSE tab

---------------------------------------------------------------------------
(* style.rs: TerminalStyle, its Display and its FromStr *)

\* A string is a sequence of characters; a character is a one-character string,
\* "ESC" is 0x1b and "LF" is the newline.
DigitChars == <<"0", "1", "2", "3", "4", "5", "6", "7", "8", "9">>
IsDigit(c) == \E i \in 1 .. 10 : DigitChars[i] = c
DigitValue(c) == (CHOOSE i \in 1 .. 10 : DigitChars[i] = c) - 1

\* TerminalColor values used as inputs: GREEN, BRIGHT_RED, BLACK, and one
\* whose components read like SGR parameters.
Colors == {<<0, 255, 0>>, <<255, 100, 100>>, <<0, 0, 0>>, <<38, 2, 48>>}

NoColor == <<>>

\* TerminalStyle::RESET
RESET ==
    [bold |-> FALSE, italic |-> FALSE, underline |-> FALSE, blink |-> FALSE,
     reverse |-> FALSE, dim |-> FALSE, strikethrough |-> FALSE,
     fg_color |-> NoColor, bg_color |-> NoColor]

StyleAttributes ==
    {"bold", "italic", "underline", "blink", "reverse", "dim", "strikethrough"}

\* The builder methods bold(), italic(), ... : the attribute is set.
SetAttribute(st, a) == [st EXCEPT ![a] = TRUE]

\* {} formatting of a u8: decimal, no sign, no leading zero.
RECURSIVE ToDecimal(_)
ToDecimal(n) ==
    IF n < 10 THEN <<DigitChars[n + 1]>>
    ELSE ToDecimal(n \div 10) \o <<DigitChars[(n % 10) + 1]>>

ColorParams(c) ==
    ToDecimal(c[1]) \o <<";">> \o ToDecimal(c[2]) \o <<";">> \o ToDecimal(c[3])

\* impl Display for TerminalStyle, in the struct's field order instead of the
\* order of the SGR numbers.
StyleDisplay_field_order(st) ==
    <<"ESC", "[", "0">>
    \o (IF st.bold THEN <<";", "1">> ELSE <<>>)
    \o (IF st.italic THEN <<";", "3">> ELSE <<>>)
    \o (IF st.underline THEN <<";", "4">> ELSE <<>>)
    \o (IF st.blink THEN <<";", "5">> ELSE <<>>)
    \o (IF st.reverse THEN <<";", "7">> ELSE <<>>)
    \o (IF st.dim THEN <<";", "2">> ELSE <<>>)
    \o (IF st.strikethrough THEN <<";", "9">> ELSE <<>>)
    \o (IF st.fg_color # NoColor
        THEN <<";", "3", "8", ";", "2", ";">> \o ColorParams(st.fg_color) ELSE <<>>)
    \o (IF st.bg_color # NoColor
        THEN <<";", "4", "8", ";", "2", ";">> \o ColorParams(st.bg_color) ELSE <<>>)
    \o <<"m">>

\* impl Display for TerminalStyle
StyleDisplay(st) ==
    <<"ESC", "[", "0">>
    \o (IF st.bold THEN <<";", "1">> ELSE <<>>)
    \o (IF st.dim THEN <<";", "2">> ELSE <<>>)
    \o (IF st.italic THEN <<";", "3">> ELSE <<>>)
    \o (IF st.underline THEN <<";", "4">> ELSE <<>>)
    \o (IF st.blink THEN <<";", "5">> ELSE <<>>)
    \o (IF st.reverse THEN <<";", "7">> ELSE <<>>)
    \o (IF st.strikethrough THEN <<";", "9">> ELSE <<>>)
    \o (IF st.fg_color # NoColor
        THEN <<";", "3", "8", ";", "2", ";">> \o ColorParams(st.fg_color) ELSE <<>>)
    \o (IF st.bg_color # NoColor
        THEN <<";", "4", "8", ";", "2", ";">> \o ColorParams(st.bg_color) ELSE <<>>)
    \o <<"m">>

Skip(s, n) == SubSeq(s, n + 1, Len(s))
Take(s, n) == SubSeq(s, 1, n)

\* str::starts_with / str::strip_prefix
StartsWith(s, p) == Len(s) >= Len(p) /\ Take(s, Len(p)) = p

\* is_delimiter: what remains starts with ';' or 'm'
IsDelimiter(s) == Len(s) >= 1 /\ s[1] \in {";", "m"}

\* The position of the first character of `s` that is in `cs`, 0 when none is.
FirstIndex(s, cs) ==
    IF \E i \in 1 .. Len(s) : s[i] \in cs
    THEN CHOOSE i \in 1 .. Len(s) : s[i] \in cs /\ \A j \in 1 .. i - 1 : s[j] \notin cs
    ELSE 0

RECURSIVE DecimalValue(_)
DecimalValue(ds) ==
    IF ds = <<>> THEN 0
    ELSE 10 * DecimalValue(Take(ds, Len(ds) - 1)) + DigitValue(ds[Len(ds)])

\* <u8 as FromStr>::from_str: an optional '+', then one digit or more, and a
\* value of at most 255; -1 stands for Err.
ParseU8(s) ==
    LET ds == IF Len(s) >= 1 /\ s[1] = "+" THEN Skip(s, 1) ELSE s
    IN  IF ds = <<>> \/ (\E i \in 1 .. Len(ds) : ~IsDigit(ds[i])) THEN -1
        ELSE IF DecimalValue(ds) > 255 THEN -1
        ELSE DecimalValue(ds)

StyleErr == [ok |-> FALSE, style |-> RESET]

\* The attribute step taken as long as it matches, so that a repeated
\* parameter is read too.
RECURSIVE ParseAttribute_repeated(_, _, _)
ParseAttribute_repeated(acc, digit, attr) ==
    IF StartsWith(acc.s, <<";", digit>>) /\ IsDelimiter(Skip(acc.s, 2))
    THEN ParseAttribute_repeated([this |-> SetAttribute(acc.this, attr),
                                  s |-> Skip(acc.s, 2), ok |-> acc.ok], digit, attr)
    ELSE acc

\* One `if let Some(s0) = s.strip_prefix(";N").filter(is_delimiter)` step: the
\* state is the style so far and what remains of the string.
ParseAttribute(acc, digit, attr) ==
    IF StartsWith(acc.s, <<";", digit>>) /\ IsDelimiter(Skip(acc.s, 2))
    THEN [this |-> SetAttribute(acc.this, attr), s |-> Skip(acc.s, 2), ok |-> acc.ok]
    ELSE acc

\* One `if let Some(s0) = s.strip_prefix(";38;2;")` step (";48;2;" for the
\* background): r and g end at the next ';', b at the next ';' or 'm'.
ParseColor(acc, prefix, field) ==
    IF ~StartsWith(acc.s, prefix) THEN acc
    ELSE LET s0 == Skip(acc.s, Len(prefix))
             i1 == FirstIndex(s0, {";"})
             s1 == Skip(s0, i1)
             i2 == FirstIndex(s1, {";"})
             s2 == Skip(s1, i2)
             i3 == FirstIndex(s2, {";", "m"})
         IN  IF i1 = 0 \/ i2 = 0 \/ i3 = 0 THEN [acc EXCEPT !.ok = FALSE]
             ELSE LET r == ParseU8(Take(s0, i1 - 1))
                      g == ParseU8(Take(s1, i2 - 1))
                      b == ParseU8(Take(s2, i3 - 1))
                  IN  IF r < 0 \/ g < 0 \/ b < 0 THEN [acc EXCEPT !.ok = FALSE]
                      ELSE [this |-> [acc.this EXCEPT ![field] = <<r, g, b>>],
                            s |-> Skip(s2, i3 - 1), ok |-> acc.ok]

\* impl FromStr for TerminalStyle
StyleFromStr(str) ==
    IF ~StartsWith(str, <<"ESC", "[", "0">>) THEN StyleErr
    ELSE LET a0 == [this |-> RESET, s |-> Skip(str, 3), ok |-> TRUE]
             a1 == ParseAttribute(a0, "1", "bold")
             a2 == ParseAttribute(a1, "2", "dim")
             a3 == ParseAttribute(a2, "3", "italic")
             a4 == ParseAttribute(a3, "4", "underline")
             a5 == ParseAttribute(a4, "5", "blink")
             a6 == ParseAttribute(a5, "7", "reverse")
             a7 == ParseAttribute(a6, "9", "strikethrough")
             a8 == ParseColor(a7, <<";", "3", "8", ";", "2", ";">>, "fg_color")
             a9 == IF a8.ok
                   THEN ParseColor(a8, <<";", "4", "8", ";", "2", ";">>, "bg_color")
                   ELSE a8
         IN  IF a9.ok /\ a9.s = <<"m">> THEN [ok |-> TRUE, style |-> a9.this]
             ELSE StyleErr

---------------------------------------------------------------------------
(* geometry.rs: TerminalSize and TerminalPosition *)

\* TerminalPosition::row_col
row_col(r, c) == [row |-> r, col |-> c]

\* TerminalPosition::ZERO
ZERO == row_col(0, 0)

\* TerminalSize::rows_cols
rows_cols(r, c) == [rows |-> r, cols |-> c]

\* TerminalSize::contains
contains(size, position) == position.row < size.rows /\ position.col < size.cols

\* impl Add for TerminalPosition
PosAdd(p, q) == row_col(p.row + q.row, p.col + q.col)

\* #[derive(PartialOrd, Ord)] on TerminalPosition: row first, then col.
PosLess(p, q) == p.row < q.row \/ (p.row = q.row /\ p.col < q.col)

---------------------------------------------------------------------------
(* frame.rs: TerminalFrame *)

\* The characters written into frames. "a" and "b" are letters of width 1,
\* "W2" and "W3" stand for characters the Unicode estimator gives the widths 2
\* and 3, "LF" is the newline, "ESC" is 0x1b, "BEL" a control character; the
\* characters of the style sequences are written as themselves.
ControlChars == {"LF", "ESC", "BEL"}

\* char::is_ascii_alphabetic
IsAsciiAlphabetic(c) == c \in {"a", "b", "m"}

\* EstimateCharWidth::estimate_char_width. "Fixed" is FixedCharWidthEstimator;
\* "Unicode" is an estimator an application supplies, the one of the tests.
estimate_char_width(estimator, c) ==
    IF c \in ControlChars THEN 0
    ELSE IF estimator = "Fixed" THEN 1
    ELSE IF c = "W2" THEN 2
    ELSE IF c = "W3" THEN 3
    ELSE 1

\* TerminalChar::BLANK
BLANK == [style |-> RESET, width |-> 1, value |-> " "]

\* BTreeMap::new
NoData == [p \in {} |-> BLANK]

\* BTreeMap::insert
DataInsert(data, pos, c) ==
    [p \in DOMAIN data \cup {pos} |-> IF p = pos THEN c ELSE data[p]]

\* BTreeMap::remove
DataRemove(data, pos) == [p \in DOMAIN data \ {pos} |-> data[p]]

\* TerminalFrame::with_char_width_estimator
with_char_width_estimator(size, estimator) ==
    [size |-> size, data |-> NoData, tail |-> ZERO, current_style |-> RESET,
     escape_sequence |-> <<>>, char_width_estimator |-> estimator]

\* TerminalFrame::chars: the positions of the frame in row-major order, those
\* before next_pos filtered out; the result is the sequence of (position, char).
RECURSIVE CharsFrom(_, _, _, _)
CharsFrom(f, row, col, next_pos) ==
    IF row >= f.size.rows THEN <<>>
    ELSE IF col >= f.size.cols THEN CharsFrom(f, row + 1, 0, next_pos)
    ELSE LET pos == row_col(row, col)
         IN  IF PosLess(pos, next_pos) THEN CharsFrom(f, row, col + 1, next_pos)
             ELSE IF pos \in DOMAIN f.data
             THEN <<[pos |-> pos, c |-> f.data[pos]]>>
                  \o CharsFrom(f, row, col + 1, row_col(row, col + f.data[pos].width))
             ELSE <<[pos |-> pos, c |-> BLANK]>>
                  \o CharsFrom(f, row, col + 1, row_col(row, col + 1))

chars(f) == CharsFrom(f, 0, 0, ZERO)

\* The entries of f.chars() as a set.
Enumerated(f) == {cs[i] : cs \in {chars(f)}, i \in 1 .. Len(chars(f))}

\* self.data.range(..target_pos).next_back(): the keys before target_pos.
KeysBefore(data, target_pos) == {p \in DOMAIN data : PosLess(p, target_pos)}

LastKey(keys) == CHOOSE p \in keys : \A q \in keys : q = p \/ PosLess(q, p)

\* TerminalFrame::draw, lines 141-146: the nearest cell before target_pos is
\* removed when its extent reaches over target_pos.
RemoveOverlappingPrev(data, target_pos) ==
    IF KeysBefore(data, target_pos) = {} THEN data
    ELSE LET prev_pos == LastKey(KeysBefore(data, target_pos))
             end_pos == PosAdd(prev_pos, row_col(0, data[prev_pos].width))
         IN  IF PosLess(target_pos, end_pos) THEN DataRemove(data, prev_pos) ELSE data

\* TerminalFrame::draw, lines 147-149: the cells that start inside the extent
\* of the copied cell are removed.
RemoveCovered(data, target_pos, width) ==
    [p \in DOMAIN data \ {PosAdd(target_pos, row_col(0, i)) : i \in 0 .. width - 1}
        |-> data[p]]

\* TerminalFrame::draw, the test of line 137.
DrawContains(size, target_pos) == contains(size, target_pos)

\* TerminalFrame::draw, the body of its loop for one (src_pos, c).
DrawChar(data, size, position, src_pos, c) ==
    LET target_pos == PosAdd(position, src_pos)
    IN  IF ~DrawContains(size, target_pos) THEN data
        ELSE DataInsert(RemoveCovered(RemoveOverlappingPrev(data, target_pos),
                                      target_pos, c.width),
                        target_pos, c)

\* The value of a one-element set. The loops below bind each intermediate value
\* with it, so that the value is computed once.
Only(S) == CHOOSE x \in S : TRUE

\* TerminalFrame::draw, its loop from the i-th (src_pos, c) of cs on.
RECURSIVE DrawChars(_, _, _, _, _)
DrawChars(data, size, position, cs, i) ==
    IF i > Len(cs) THEN data
    ELSE Only({DrawChars(next, size, position, cs, i + 1) :
                  next \in {DrawChar(data, size, position, cs[i].pos, cs[i].c)}})

\* TerminalFrame::draw
FrameDraw(self, position, frame) ==
    Only({[self EXCEPT !.data = DrawChars(self.data, self.size, position, cs, 1)] :
             cs \in {chars(frame)}})

\* write_str, the test of line 236, without its row part.
WriteFits_cols_only(f, width) == f.tail.col + width <= f.size.cols
\* write_str, the test of line 236.
WriteFits(f, width) == f.tail.row < f.size.rows /\ f.tail.col + width <= f.size.cols

\* write_str, lines 215-218: the new current_style is the parsed style, merged
\* into the style in force instead of replacing it.
AssignStyle_merged(current, parsed) ==
    [a \in DOMAIN current |->
        IF a \in {"fg_color", "bg_color"}
        THEN IF parsed[a] # <<>> THEN parsed[a] ELSE current[a]
        ELSE current[a] \/ parsed[a]]
\* write_str, lines 215-218: self.current_style = <the parsed style>.
AssignStyle(current, parsed) == parsed

\* write_str, lines 226-227, without the reset of the column.
NewlineTail_keeps_col(tail) == [row |-> tail.row + 1, col |-> tail.col]
\* write_str, lines 226-227: the tail moves to the start of the next row.
NewlineTail(tail) == [row |-> tail.row + 1, col |-> 0]

\* NonZeroUsize::new with 0 raised to 1.
NonZeroUsize_new_min1(n) == <<IF n = 0 THEN 1 ELSE n>>
\* NonZeroUsize::new, line 231: None for 0, Some(n) otherwise.
NonZeroUsize_new(n) == IF n = 0 THEN <<>> ELSE <<n>>

\* write_str, line 246, moving the tail only when the char was stored.
AdvanceTail_when_stored(f, width) ==
    IF WriteFits(f, width) THEN [row |-> f.tail.row, col |-> f.tail.col + width]
    ELSE f.tail
\* write_str, line 246: self.tail.col += width.get().
AdvanceTail(f, width) == [row |-> f.tail.row, col |-> f.tail.col + width]

\* The body of the loop with the newline handled before the pending sequence
\* is looked at.
WriteChar_newline_first(f, c) ==
    IF c = "LF"
    THEN [f |-> [f EXCEPT !.tail = NewlineTail(f.tail)], ok |-> TRUE]
    ELSE IF f.escape_sequence # <<>>
    THEN LET esc == Append(f.escape_sequence, c)
             parsed == StyleFromStr(esc)
         IN  IF ~IsAsciiAlphabetic(c)
             THEN [f |-> [f EXCEPT !.escape_sequence = esc], ok |-> TRUE]
             ELSE IF parsed.ok
             THEN [f |-> [f EXCEPT !.current_style =
                                       AssignStyle(f.current_style, parsed.style),
                                   !.escape_sequence = <<>>],
                   ok |-> TRUE]
             ELSE [f |-> [f EXCEPT !.escape_sequence = esc], ok |-> FALSE]
    ELSE IF c = "ESC"
    THEN [f |-> [f EXCEPT !.escape_sequence = <<c>>], ok |-> TRUE]
    ELSE LET width == NonZeroUsize_new(estimate_char_width(f.char_width_estimator, c))
         IN  IF width = <<>> THEN [f |-> f, ok |-> TRUE]
             ELSE [f |-> [f EXCEPT
                            !.data = IF WriteFits(f, width[1])
                                     THEN DataInsert(f.data, f.tail,
                                                     [style |-> f.current_style,
                                                      width |-> width[1], value |-> c])
                                     ELSE f.data,
                            !.tail = AdvanceTail(f, width[1])],
                   ok |-> TRUE]

\* write_str, the body of its loop for one char. The result is the frame and
\* whether the `expect` of line 218 panicked.
WriteChar(f, c) ==
    IF f.escape_sequence # <<>>
    THEN LET esc == Append(f.escape_sequence, c)
             parsed == StyleFromStr(esc)
         IN  IF ~IsAsciiAlphabetic(c)
             THEN [f |-> [f EXCEPT !.escape_sequence = esc], ok |-> TRUE]
             ELSE IF parsed.ok
             THEN [f |-> [f EXCEPT !.current_style =
                                       AssignStyle(f.current_style, parsed.style),
                                   !.escape_sequence = <<>>],
                   ok |-> TRUE]
             ELSE [f |-> [f EXCEPT !.escape_sequence = esc], ok |-> FALSE]
    ELSE IF c = "ESC"
    THEN [f |-> [f EXCEPT !.escape_sequence = <<c>>], ok |-> TRUE]
    ELSE IF c = "LF"
    THEN [f |-> [f EXCEPT !.tail = NewlineTail(f.tail)], ok |-> TRUE]
    ELSE LET width == NonZeroUsize_new(estimate_char_width(f.char_width_estimator, c))
         IN  IF width = <<>> THEN [f |-> f, ok |-> TRUE]
             ELSE [f |-> [f EXCEPT
                            !.data = IF WriteFits(f, width[1])
                                     THEN DataInsert(f.data, f.tail,
                                                     [style |-> f.current_style,
                                                      width |-> width[1], value |-> c])
                                     ELSE f.data,
                            !.tail = AdvanceTail(f, width[1])],
                   ok |-> TRUE]

\* write_str with a pending sequence that does not outlive the call: what is
\* left of it when the string ends is dropped.
RECURSIVE write_str_drops_pending(_, _)
write_str_drops_pending(f, s) ==
    IF s = <<>> THEN [f |-> [f EXCEPT !.escape_sequence = <<>>], ok |-> TRUE]
    ELSE Only({IF r.ok THEN write_str_drops_pending(r.f, Tail(s)) ELSE r :
                  r \in {WriteChar(f, Head(s))}})

\* write_str: the chars of s in order, up to a panic.
RECURSIVE write_str(_, _)
write_str(f, s) ==
    IF s = <<>> THEN [f |-> f, ok |-> TRUE]
    ELSE Only({IF r.ok THEN write_str(r.f, Tail(s)) ELSE r :
                  r \in {WriteChar(f, Head(s))}})

---------------------------------------------------------------------------
(* terminal.rs: Terminal::draw, and the tty that reads what it writes *)

\* Option: None and Some(x)
None == <<>>
Some(x) == <<x>>

\* let mut last_row = usize::MAX: a row no position has.
NoRow == 0 - 1

\* What draw writes, one record per write!: hide "\x1b[?25l", clear "\x1b[2J",
\* move "\x1b[{row+1};{col+1}H", style (the Display of a style), char (the
\* value of a cell; pos, the position of the cell, is not part of the bytes),
\* show "\x1b[?25h".
Hide == [k |-> "hide"]
Clear == [k |-> "clear"]
Show == [k |-> "show"]
Move(position) == [k |-> "move", pos |-> position]
SetStyle(st) == [k |-> "style", style |-> st]
PutCell(position, c) == [k |-> "char", pos |-> position, c |-> c]

\* Terminal::draw, the test of line 425: `new == old` on (position, char).
CellsEqual(new, old) == new = old

\* Terminal::draw, lines 424-444: the loop over frame.chars() zipped with
\* last_frame.chars(), from the i-th pair on; zip ends with the shorter one.
RECURSIVE DrawLoop(_, _, _, _, _, _)
DrawLoop(news, olds, i, skipped, last_style, last_row) ==
    IF i > Len(news) \/ i > Len(olds) THEN <<>>
    ELSE IF CellsEqual(news[i], olds[i])
    THEN DrawLoop(news, olds, i + 1, TRUE, last_style, last_row)
    ELSE (IF skipped \/ last_row # news[i].pos.row THEN <<Move(news[i].pos)>> ELSE <<>>)
         \o (IF Some(news[i].c.style) # last_style THEN <<SetStyle(news[i].c.style)>> ELSE <<>>)
         \o <<PutCell(news[i].pos, news[i].c)>>
         \o DrawLoop(news, olds, i + 1, FALSE, Some(news[i].c.style), news[i].pos.row)

\* Terminal::draw, lines 412-415, keeping last_frame whatever its size.
ResetLast_keeps(old_frame, frame) == old_frame
\* Terminal::draw, lines 412-415: last_frame after the test of the sizes.
ResetLast(old_frame, frame) ==
    IF old_frame.size # frame.size
    THEN with_char_width_estimator(frame.size, "Fixed")
    ELSE old_frame

\* Terminal::draw, lines 446-449, showing the cursor before it is moved.
DesiredCursor_show_first(cur) == IF cur # None THEN <<Show, Move(cur[1])>> ELSE <<>>
\* Terminal::draw, lines 446-449.
DesiredCursor(cur) == IF cur # None THEN <<Move(cur[1]), Show>> ELSE <<>>

\* Terminal::draw: all that a draw that does not fail writes.
DrawOutput(old_frame, frame, cur) ==
    Only({<<Hide>>
          \o (IF old_frame.size # frame.size THEN <<Clear>> ELSE <<>>)
          \o DrawLoop(news, olds, 1, FALSE, None, NoRow)
          \o DesiredCursor(cur) :
            news \in {chars(frame)}, olds \in {chars(ResetLast(old_frame, frame))}})

\* TerminalFrame::finish
finish(f) == [f EXCEPT !.char_width_estimator = "Fixed"]

\* TerminalFrame::get_char: Some(the cell that starts at position), None inside
\* the extent of a wide cell of the same row, Some(BLANK) elsewhere.
get_char(f, position) ==
    IF position \in DOMAIN f.data THEN Some(f.data[position])
    ELSE IF KeysBefore(f.data, position) # {}
            /\ LastKey(KeysBefore(f.data, position)).row = position.row
            /\ position.col < LastKey(KeysBefore(f.data, position)).col
                              + f.data[LastKey(KeysBefore(f.data, position))].width
    THEN None
    ELSE Some(BLANK)

\* ---- the tty
ScreenPositions == {row_col(r, c) : r \in 0 .. ScreenRows - 1, c \in 0 .. ScreenCols - 1}

\* What the tty shows at one position: column `off` of a glyph `width` wide.
Glyph(value, st, width, off) == [value |-> value, style |-> st, width |-> width, off |-> off]
BlankGlyph == Glyph(" ", RESET, 1, 0)

\* The columns the tty gives a character.
GlyphWidth(value) == IF value = "W2" THEN 2 ELSE 1

\* The positions of the glyph that shows at p.
GlyphExtent(cells, p) ==
    {row_col(p.row, p.col - cells[p].off + i) : i \in 0 .. cells[p].width - 1}

\* The tty prints value at its cursor in its current rendition: the glyphs it
\* overwrites a part of are blanked, the cursor moves right by the width.
PrintGlyph(tty, value) ==
    LET w == GlyphWidth(value)
        covered == {row_col(tty.cur.row, tty.cur.col + i) : i \in 0 .. w - 1}
    IN  [tty EXCEPT
           !.cells = [p \in ScreenPositions |->
                        IF p \in covered
                        THEN Glyph(value, tty.sgr, w, p.col - tty.cur.col)
                        ELSE IF GlyphExtent(tty.cells, p) \cap covered # {}
                        THEN BlankGlyph
                        ELSE tty.cells[p]],
           !.cur = row_col(tty.cur.row, tty.cur.col + w)]

\* The tty reads one thing draw wrote.
TtyRead(tty, op) ==
    IF op.k \in {"hide", "show"} THEN tty
    ELSE IF op.k = "clear" THEN [tty EXCEPT !.cells = [p \in ScreenPositions |-> BlankGlyph]]
    ELSE IF op.k = "move" THEN [tty EXCEPT !.cur = op.pos]
    ELSE IF op.k = "style" THEN [tty EXCEPT !.sgr = op.style]
    ELSE PrintGlyph(tty, op.c.value)

RECURSIVE TtyReadAll(_, _, _)
TtyReadAll(tty, out, i) ==
    IF i > Len(out) THEN tty
    ELSE Only({TtyReadAll(next, out, i + 1) : next \in {TtyRead(tty, out[i])}})

---------------------------------------------------------------------------
(* Terminal::new *)

\* The places where Terminal::new can fail, in the order of the code.
NewFailures == {"none", "stdin_not_tty", "stdout_not_tty", "tcgetattr", "pipe",
                "sigaction", "ioctl", "tcsetattr", "write"}

\* Failures before the Terminal value is built: the function just returns.
EarlyFailures == {"stdin_not_tty", "stdout_not_tty", "tcgetattr", "pipe"}

\* TERMINAL_EXISTS.swap(true): the value the flag had.
SwapExists_ignored(flag) == FALSE
SwapExists(flag) == flag

\* Drop for Terminal, the write of TERMINAL_EXISTS.
DropStoresFlag(flag) == FALSE

\* Drop for Terminal: tcsetattr(original_termios) when it succeeds.
DropTermios(t, cur, ok) == IF ok THEN t.original_termios ELSE cur

\* Drop for Terminal on the descriptor table: close(SIGWINCH_PIPE_FD), then the
\* field `signal: File` is dropped, which closes the read end.
DropFds_leak_read(tab, pipe_fd, signal) == CloseFd(tab, pipe_fd)
DropFds(tab, pipe_fd, signal) == CloseFd(CloseFd(tab, pipe_fd), signal)

NoTerminal == [signal |-> -1, original_termios |-> {}, wfd |-> -1]

Observed(op, res, failed, t) ==
    [op |-> op, res |-> res, live |-> terminals # {}, failed |-> failed, t |-> t]

\* Terminal::new. fail: where it fails; tcOk and delivered: the outcome of the
\* Drop that runs when `?` returns after the Terminal value was built (tcsetattr
\* succeeded; how many of the two sequences, leave alternate screen and show
\* cursor, reached the tty).
TerminalNew(fail, tcOk, delivered) ==
    /\ UNCHANGED notTermVars
    /\ IF SwapExists(TERMINAL_EXISTS)
       THEN \* "Terminal instance already exists"
            /\ fail = "none" /\ tcOk /\ delivered = 2
            /\ TERMINAL_EXISTS' = TRUE
            /\ last' = Observed("new", "AlreadyExists", FALSE, NoTerminal)
            /\ UNCHANGED <<SIGWINCH_PIPE_FD, handler, terminals, fdtab, termios,
                           altScreen, cursorVisible, strayWrite, dropped>>
       ELSE IF fail \in EarlyFailures \/ Cardinality(FreeFds(fdtab)) < 2
       THEN \* not a tty, tcgetattr or pipe failed: `?` returns, the flag stays set
            /\ fail \in EarlyFailures /\ tcOk /\ delivered = 2
            /\ (Cardinality(FreeFds(fdtab)) < 2 => fail = "pipe")
            /\ TERMINAL_EXISTS' = TRUE
            /\ last' = Observed("new", fail, FALSE, NoTerminal)
            /\ UNCHANGED <<SIGWINCH_PIPE_FD, handler, terminals, fdtab, termios,
                           altScreen, cursorVisible, strayWrite, dropped>>
       ELSE IF fail = "sigaction"
       THEN \* set_sigwinch_handler: the pipe exists, sigaction failed, both ends leak
            /\ tcOk /\ delivered = 2
            /\ TERMINAL_EXISTS' = TRUE
            /\ SIGWINCH_PIPE_FD' = PipeWrite(fdtab)
            /\ fdtab' = AfterPipe(fdtab)
            /\ last' = Observed("new", fail, FALSE, NoTerminal)
            /\ UNCHANGED <<handler, terminals, termios, altScreen, cursorVisible,
                           strayWrite, dropped>>
       ELSE LET this == [signal |-> PipeRead(fdtab),
                         original_termios |-> termios,
                         wfd |-> PipeWrite(fdtab)]
            IN  /\ SIGWINCH_PIPE_FD' = PipeWrite(fdtab)
                /\ handler' = TRUE
                /\ IF fail = "none"
                   THEN /\ tcOk /\ delivered = 2
                        /\ TERMINAL_EXISTS' = TRUE
                        /\ fdtab' = AfterPipe(fdtab)
                        /\ termios' = RawOf(termios)
                        /\ altScreen' = TRUE
                        /\ cursorVisible' = FALSE
                        /\ terminals' = terminals \cup {this}
                        /\ last' = Observed("new", "Ok", FALSE, this)
                        /\ UNCHANGED <<strayWrite, dropped>>
                   ELSE \* update_size, enable_raw_mode or the first flush failed:
                        \* `?` returns and `this` is dropped on the way out
                        /\ fail \in {"ioctl", "tcsetattr", "write"}
                        /\ altScreen' = IF delivered >= 1 THEN FALSE ELSE altScreen
                        /\ termios' = DropTermios(this, IF fail = "write" THEN RawOf(termios)
                                                                          ELSE termios, tcOk)
                        /\ cursorVisible' = IF delivered >= 2 THEN TRUE ELSE cursorVisible
                        /\ fdtab' = DropFds(AfterPipe(fdtab), PipeWrite(fdtab), this.signal)
                        /\ TERMINAL_EXISTS' = DropStoresFlag(TRUE)
                        /\ last' = Observed("new", fail, ~tcOk \/ delivered < 2, this)
                        /\ UNCHANGED <<terminals, strayWrite, dropped>>

\* Drop for Terminal. tcOk: disable_raw_mode's tcsetattr succeeded; delivered: how
\* many of the two sequences, leave alternate screen and show cursor, reached the
\* tty (the writes and the flush may fail, every failure is ignored).
TerminalDrop(t, tcOk, delivered) ==
    /\ t \in terminals
    /\ altScreen' = IF delivered >= 1 THEN FALSE ELSE altScreen
    /\ termios' = DropTermios(t, termios, tcOk)
    /\ cursorVisible' = IF delivered >= 2 THEN TRUE ELSE cursorVisible
    /\ fdtab' = DropFds(fdtab, SIGWINCH_PIPE_FD, t.signal)
    /\ TERMINAL_EXISTS' = DropStoresFlag(TERMINAL_EXISTS)
    /\ terminals' = terminals \ {t}
    /\ last' = Observed("drop", "Ok", ~tcOk \/ delivered < 2, t)
    /\ dropped' = TRUE
    /\ UNCHANGED <<SIGWINCH_PIPE_FD, handler, strayWrite>>
    /\ UNCHANGED notTermVars

\* handle_sigwinch: one write of one byte to SIGWINCH_PIPE_FD, the result ignored.
\* A closed descriptor gives EBADF; a descriptor reused for a file takes the byte.
HandleSigwinch ==
    /\ handler
    /\ strayWrite' = (strayWrite \/ (SIGWINCH_PIPE_FD \in Fds /\ fdtab[SIGWINCH_PIPE_FD] = "other"))
    /\ last' = Observed("sigwinch",
                        IF SIGWINCH_PIPE_FD \in Fds THEN fdtab[SIGWINCH_PIPE_FD] ELSE "closed",
                        FALSE, NoTerminal)
    /\ UNCHANGED <<TERMINAL_EXISTS, SIGWINCH_PIPE_FD, handler, terminals, fdtab,
                   termios, altScreen, cursorVisible, dropped>>
    /\ UNCHANGED notTermVars

\* The application opens a file: it gets the lowest free descriptor number.
AppOpen ==
    /\ FreeFds(fdtab) # {}
    /\ fdtab' = [fdtab EXCEPT ![LowestFree(fdtab)] = "other"]
    /\ last' = Observed("open", "Ok", FALSE, NoTerminal)
    /\ UNCHANGED <<TERMINAL_EXISTS, SIGWINCH_PIPE_FD, handler, terminals, termios,
                   altScreen, cursorVisible, strayWrite, dropped>>
    /\ UNCHANGED notTermVars

\* The application closes one of its own files.
AppClose(fd) ==
    /\ fdtab[fd] = "other"
    /\ fdtab' = CloseFd(fdtab, fd)
    /\ last' = Observed("close", "Ok", FALSE, NoTerminal)
    /\ UNCHANGED <<TERMINAL_EXISTS, SIGWINCH_PIPE_FD, handler, terminals, termios,
                   altScreen, cursorVisible, strayWrite, dropped>>
    /\ UNCHANGED notTermVars

---------------------------------------------------------------------------
(* input.rs: TerminalInput and parse_input *)

\* A byte is a number in 0 .. 255; the buffers are sequences of bytes, and
\* At(bytes, i) is bytes[i] with the indices of the source, from 0.
At(bytes, i) == bytes[i + 1]

\* The bytes the parser names.
b_TAB == 9
b_CR == 13
b_ESC == 27
b_BANG == 33
b_PLUS == 43
b_0 == 48
b_1 == 49
b_2 == 50
b_3 == 51
b_4 == 52
b_5 == 53
b_6 == 54
b_7 == 55
b_8 == 56
b_9 == 57
b_SEMI == 59
b_LT == 60
b_A == 65
b_B == 66
b_C == 67
b_D == 68
b_F == 70
b_H == 72
b_M == 77
b_O == 79
b_X == 88
b_Z == 90
b_LBRACKET == 91
b_a == 97
b_m == 109
b_TILDE == 126
b_DEL == 127

\* KeyCode: the variant and, for Char, the code point (0 otherwise).
KeyCode(k) == [k |-> k, c |-> 0]
KeyChar(c) == [k |-> "Char", c |-> c]

\* create_key_input: TerminalInput::Key(KeyInput { ctrl, alt, code })
create_key_input(ctrl, alt, code) ==
    [t |-> "Key", ctrl |-> ctrl, alt |-> alt, shift |-> FALSE, code |-> code,
     event |-> "", position |-> ZERO]

\* TerminalInput::Mouse(MouseInput { event, position, ctrl, alt, shift })
MouseInput(event, position, ctrl, alt, shift) ==
    [t |-> "Mouse", ctrl |-> ctrl, alt |-> alt, shift |-> shift,
     code |-> KeyCode(""), event |-> event, position |-> position]

\* What a parse function returns: Ok((input, consumed)), Err(..), or a panic.
ParseOk(input, consumed) == [kind |-> "Ok", input |-> input, consumed |-> consumed]
ParseErr == [kind |-> "Err", input |-> None, consumed |-> 0]
ParsePanic == [kind |-> "Panic", input |-> None, consumed |-> 0]

\* x & mask != 0 for a one-bit mask 2^bit.
BitSet(x, bit) == (x \div (2 ^ bit)) % 2 = 1

\* a.saturating_sub(b)
saturating_sub(a, b) == IF a >= b THEN a - b ELSE 0

\* u8 `a - b`: with overflow checks (the debug profile) an underflow panics and
\* the value is -1 here; without them (the release profile) it wraps.
U8Sub(a, b, checks) ==
    IF a >= b THEN a - b ELSE IF checks THEN 0 - 1 ELSE a - b + 256

\* The mapping of a byte below 0x20, lines 180-184.
ControlKey(byte) ==
    IF byte = b_CR THEN [ctrl |-> FALSE, code |-> KeyCode("Enter")]
    ELSE IF byte = b_TAB THEN [ctrl |-> FALSE, code |-> KeyCode("Tab")]
    ELSE [ctrl |-> TRUE, code |-> KeyChar(byte + 96)]

parse_ascii_char(bytes) ==
    LET byte == At(bytes, 0)
    IN  IF byte < 32
        THEN ParseOk(Some(create_key_input(ControlKey(byte).ctrl, FALSE,
                                           ControlKey(byte).code)), 1)
        ELSE ParseOk(Some(create_key_input(FALSE, FALSE, KeyChar(byte))), 1)

\* parse_alt_char with the control mapping of parse_ascii_char and nothing else.
parse_alt_char_as_ascii(bytes) ==
    LET b1 == At(bytes, 1)
        mapped == IF b1 < 32 THEN ControlKey(b1)
                  ELSE [ctrl |-> FALSE, code |-> KeyChar(b1)]
    IN  ParseOk(Some(create_key_input(mapped.ctrl, TRUE, mapped.code)), 2)

parse_alt_char(bytes) ==
    LET b1 == At(bytes, 1)
        mapped == IF b1 < 32
                  THEN IF b1 = 8 THEN [ctrl |-> FALSE, code |-> KeyCode("Backspace")]
                       ELSE ControlKey(b1)
                  ELSE [ctrl |-> FALSE, code |-> KeyChar(b1)]
    IN  ParseOk(Some(create_key_input(mapped.ctrl, TRUE, mapped.code)), 2)

\* The match of lines 249-257 and 263-272: the key of a final byte, "" for none.
ArrowCode(b) ==
    IF b = b_A THEN "Up" ELSE IF b = b_B THEN "Down" ELSE IF b = b_C THEN "Right"
    ELSE IF b = b_D THEN "Left" ELSE IF b = b_H THEN "Home" ELSE IF b = b_F THEN "End"
    ELSE ""

parse_ss3_sequence(bytes) ==
    IF Len(bytes) < 3 THEN ParseOk(None, 0)
    ELSE IF ArrowCode(At(bytes, 2)) = "" THEN ParseOk(None, 3)
    ELSE ParseOk(Some(create_key_input(FALSE, FALSE, KeyCode(ArrowCode(At(bytes, 2))))), 3)

parse_simple_csi_key(bytes) ==
    LET code == IF At(bytes, 2) = b_Z THEN "BackTab" ELSE ArrowCode(At(bytes, 2))
    IN  IF code = "" THEN ParseOk(None, 3)
        ELSE ParseOk(Some(create_key_input(FALSE, FALSE, KeyCode(code))), 3)

parse_modified_arrow_key(bytes, checks) ==
    LET modifier == U8Sub(At(bytes, 4), b_0, checks)
        code == IF At(bytes, 5) \in {b_A, b_B, b_C, b_D} THEN ArrowCode(At(bytes, 5))
                ELSE ""
    IN  IF modifier < 0 THEN ParsePanic
        ELSE IF code = "" THEN ParseOk(None, 6)
        ELSE ParseOk(Some(create_key_input(BitSet(modifier, 2), BitSet(modifier, 1),
                                           KeyCode(code))), 6)

\* The match of lines 317-325 and 333-341.
SpecialCode(b) ==
    IF b \in {b_1, b_7} THEN "Home" ELSE IF b = b_2 THEN "Insert"
    ELSE IF b = b_3 THEN "Delete" ELSE IF b \in {b_4, b_8} THEN "End"
    ELSE IF b = b_5 THEN "PageUp" ELSE IF b = b_6 THEN "PageDown" ELSE ""

parse_special_key_simple(bytes) ==
    IF SpecialCode(At(bytes, 2)) = "" THEN ParseOk(None, 4)
    ELSE ParseOk(Some(create_key_input(FALSE, FALSE,
                                       KeyCode(SpecialCode(At(bytes, 2))))), 4)

parse_special_key_with_modifier(bytes, checks) ==
    LET modifier == U8Sub(At(bytes, 4), b_0, checks)
    IN  IF SpecialCode(At(bytes, 2)) = "" THEN ParseOk(None, 6)
        ELSE IF modifier < 0 THEN ParsePanic
        ELSE ParseOk(Some(create_key_input(BitSet(modifier, 2), BitSet(modifier, 1),
                                           KeyCode(SpecialCode(At(bytes, 2))))), 6)

parse_complex_csi_key(bytes, checks) ==
    IF /\ Len(bytes) >= 6 /\ At(bytes, 2) = b_1 /\ At(bytes, 3) = b_SEMI
       /\ At(bytes, 5) \in {b_A, b_B, b_C, b_D}
    THEN parse_modified_arrow_key(bytes, checks)
    ELSE IF Len(bytes) >= 4 /\ At(bytes, 3) = b_TILDE
    THEN parse_special_key_simple(bytes)
    ELSE IF Len(bytes) >= 6 /\ At(bytes, 3) = b_SEMI /\ At(bytes, 5) = b_TILDE
    THEN parse_special_key_with_modifier(bytes, checks)
    ELSE IF Len(bytes) < 6 THEN ParseOk(None, 0)
    ELSE ParseOk(None, 3)

\* Is b a UTF-8 continuation byte.
IsCont(b) == 128 <= b /\ b <= 191

\* The width parse_utf8_char takes from the leading byte, lines 404-409.
Utf8Width(b) ==
    IF 192 <= b /\ b <= 223 THEN 2
    ELSE IF 224 <= b /\ b <= 239 THEN 3
    ELSE IF 240 <= b /\ b <= 247 THEN 4
    ELSE 1

\* std::str::from_utf8 on the bytes of one char: is bs a well-formed sequence.
Utf8CharValid(bs) ==
    \/ Len(bs) = 1 /\ bs[1] < 128
    \/ Len(bs) = 2 /\ 194 <= bs[1] /\ bs[1] <= 223 /\ IsCont(bs[2])
    \/ /\ Len(bs) = 3 /\ IsCont(bs[3])
       /\ \/ bs[1] = 224 /\ 160 <= bs[2] /\ bs[2] <= 191
          \/ bs[1] \in (225 .. 236) \cup {238, 239} /\ IsCont(bs[2])
          \/ bs[1] = 237 /\ 128 <= bs[2] /\ bs[2] <= 159
    \/ /\ Len(bs) = 4 /\ IsCont(bs[3]) /\ IsCont(bs[4])
       /\ \/ bs[1] = 240 /\ 144 <= bs[2] /\ bs[2] <= 191
          \/ bs[1] \in 241 .. 243 /\ IsCont(bs[2])
          \/ bs[1] = 244 /\ 128 <= bs[2] /\ bs[2] <= 143

\* s.chars().next() of a well-formed sequence: its code point.
Utf8Decode(bs) ==
    IF Len(bs) = 1 THEN bs[1]
    ELSE IF Len(bs) = 2 THEN (bs[1] - 192) * 64 + (bs[2] - 128)
    ELSE IF Len(bs) = 3
    THEN (bs[1] - 224) * 4096 + (bs[2] - 128) * 64 + (bs[3] - 128)
    ELSE (bs[1] - 240) * 262144 + (bs[2] - 128) * 4096 + (bs[3] - 128) * 64
         + (bs[4] - 128)

\* std::str::from_utf8 on a slice: is every char of it well-formed.
RECURSIVE Utf8Valid(_)
Utf8Valid(bs) ==
    IF bs = <<>> THEN TRUE
    ELSE IF bs[1] < 128 THEN Utf8Valid(Tail(bs))
    ELSE /\ Len(bs) >= Utf8Width(bs[1])
         /\ Utf8CharValid(Take(bs, Utf8Width(bs[1])))
         /\ Utf8Valid(Skip(bs, Utf8Width(bs[1])))

\* parse_utf8_char, discarding a char whose bytes have not all arrived.
parse_utf8_char_discards_short(bytes) ==
    LET width == Utf8Width(At(bytes, 0))
    IN  IF Len(bytes) < width THEN ParseOk(None, width)
        ELSE IF Utf8CharValid(Take(bytes, width))
        THEN ParseOk(Some(create_key_input(FALSE, FALSE,
                                           KeyChar(Utf8Decode(Take(bytes, width))))),
                     width)
        ELSE ParseOk(None, 1)

parse_utf8_char(bytes) ==
    LET width == Utf8Width(At(bytes, 0))
    IN  IF Len(bytes) < width THEN ParseOk(None, 0)
        ELSE IF Utf8CharValid(Take(bytes, width))
        THEN ParseOk(Some(create_key_input(FALSE, FALSE,
                                           KeyChar(Utf8Decode(Take(bytes, width))))),
                     width)
        ELSE ParseOk(None, 1)

\* str::split(';'): the pieces of bs between the semicolons.
RECURSIVE SplitSemi(_)
SplitSemi(bs) ==
    IF \A i \in 1 .. Len(bs) : bs[i] # b_SEMI THEN <<bs>>
    ELSE LET i == CHOOSE j \in 1 .. Len(bs) :
                      bs[j] = b_SEMI /\ \A k \in 1 .. j - 1 : bs[k] # b_SEMI
         IN  <<Take(bs, i - 1)>> \o SplitSemi(Skip(bs, i))

RECURSIVE ByteDecimal(_)
ByteDecimal(ds) ==
    IF ds = <<>> THEN 0
    ELSE 10 * ByteDecimal(Take(ds, Len(ds) - 1)) + (ds[Len(ds)] - b_0)

\* <u16 as FromStr>::from_str: an optional '+', then one digit or more, and a
\* value of at most 65535; -1 stands for Err.
ParseU16(bs) ==
    LET ds == IF Len(bs) >= 1 /\ bs[1] = b_PLUS THEN Skip(bs, 1) ELSE bs
    IN  IF ds = <<>> \/ (\E i \in 1 .. Len(ds) : ds[i] < b_0 \/ ds[i] > b_9) THEN 0 - 1
        ELSE IF ByteDecimal(ds) > 65535 THEN 0 - 1
        ELSE ByteDecimal(ds)

\* create_sgr_mouse_input with the scroll values matched before the release.
SgrEvent_scroll_first(button, is_release) ==
    LET button_code == button % 4
    IN  IF BitSet(button, 5) THEN "Drag"
        ELSE IF button = 64 THEN "ScrollUp"
        ELSE IF button = 65 THEN "ScrollDown"
        ELSE IF button_code = 3 THEN ""
        ELSE IF is_release
        THEN IF button_code = 0 THEN "LeftRelease"
             ELSE IF button_code = 1 THEN "MiddleRelease" ELSE "RightRelease"
        ELSE IF button_code = 0 THEN "LeftPress"
        ELSE IF button_code = 1 THEN "MiddlePress" ELSE "RightPress"

\* create_sgr_mouse_input: the event, "" where the function returns None.
SgrEvent(button, is_release) ==
    LET button_code == button % 4
    IN  IF BitSet(button, 5) THEN "Drag"
        ELSE IF is_release
        THEN IF button_code = 0 THEN "LeftRelease"
             ELSE IF button_code = 1 THEN "MiddleRelease"
             ELSE IF button_code = 2 THEN "RightRelease" ELSE ""
        ELSE IF button = 64 THEN "ScrollUp"
        ELSE IF button = 65 THEN "ScrollDown"
        ELSE IF button_code = 0 THEN "LeftPress"
        ELSE IF button_code = 1 THEN "MiddlePress"
        ELSE IF button_code = 2 THEN "RightPress" ELSE ""

create_sgr_mouse_input(button, x, y, is_release) ==
    IF SgrEvent(button, is_release) = "" THEN None
    ELSE Some(MouseInput(SgrEvent(button, is_release),
                         row_col(saturating_sub(y, 1), saturating_sub(x, 1)),
                         BitSet(button, 4), BitSet(button, 3), BitSet(button, 2)))

\* The positions from 3 on that hold 'M' or 'm', lines 353-358.
SgrEnds(bytes) == {i \in 3 .. Len(bytes) - 1 : At(bytes, i) \in {b_M, b_m}}

parse_sgr_mouse_sequence(bytes) ==
    IF SgrEnds(bytes) = {} THEN ParseOk(None, 0)
    ELSE LET end == CHOOSE i \in SgrEnds(bytes) : \A j \in SgrEnds(bytes) : i <= j
             body == SubSeq(bytes, 4, end)
             params == SplitSemi(body)
         IN  IF ~Utf8Valid(body) THEN ParseErr
             ELSE IF Len(params) # 3 THEN ParseOk(None, end + 1)
             ELSE IF \E i \in 1 .. 3 : ParseU16(params[i]) < 0 THEN ParseOk(None, end + 1)
             ELSE ParseOk(create_sgr_mouse_input(ParseU16(params[1]), ParseU16(params[2]),
                                                 ParseU16(params[3]),
                                                 At(bytes, end) = b_m),
                          end + 1)

\* create_x10_mouse_input: the event of button_byte.
X10Event(button_byte) ==
    LET base_button == button_byte - ((button_byte \div 4) % 8) * 4
        low == button_byte % 4
    IN  IF button_byte = 96 THEN "ScrollUp"
        ELSE IF button_byte = 97 THEN "ScrollDown"
        ELSE IF base_button = 32 THEN "LeftPress"
        ELSE IF base_button = 33 THEN "MiddlePress"
        ELSE IF base_button = 34 THEN "RightPress"
        ELSE IF base_button = 35 THEN "LeftRelease"
        ELSE IF base_button = 64 THEN "Drag"
        ELSE IF low = 0 THEN "LeftPress"
        ELSE IF low = 1 THEN "MiddlePress"
        ELSE IF low = 2 THEN "RightPress"
        ELSE "LeftRelease"

create_x10_mouse_input(button_byte, x, y) ==
    MouseInput(X10Event(button_byte),
               row_col(saturating_sub(y, 33), saturating_sub(x, 33)),
               BitSet(button_byte, 4), BitSet(button_byte, 3), BitSet(button_byte, 2))

parse_x10_mouse_sequence(bytes) ==
    IF Len(bytes) < 6 THEN ParseOk(None, 0)
    ELSE ParseOk(Some(create_x10_mouse_input(At(bytes, 3), At(bytes, 4), At(bytes, 5))), 6)

parse_csi_sequence(bytes, checks) ==
    IF Len(bytes) < 3 THEN ParseOk(None, 0)
    ELSE IF At(bytes, 2) = b_LT THEN parse_sgr_mouse_sequence(bytes)
    ELSE IF At(bytes, 2) = b_M THEN parse_x10_mouse_sequence(bytes)
    ELSE IF At(bytes, 2) \in {b_A, b_B, b_C, b_D, b_H, b_F, b_Z}
    THEN parse_simple_csi_key(bytes)
    ELSE IF b_1 <= At(bytes, 2) /\ At(bytes, 2) <= b_6
    THEN parse_complex_csi_key(bytes, checks)
    ELSE ParseOk(None, 3)

\* parse_escape_sequence taking a second ESC for an Alt-modified character.
parse_escape_sequence_alt_esc(bytes, checks) ==
    IF Len(bytes) = 1 THEN ParseOk(None, 0)
    ELSE IF At(bytes, 1) = b_LBRACKET THEN parse_csi_sequence(bytes, checks)
    ELSE IF At(bytes, 1) = b_O THEN parse_ss3_sequence(bytes)
    ELSE IF At(bytes, 1) < 128 THEN parse_alt_char(bytes)
    ELSE ParseOk(Some(create_key_input(FALSE, FALSE, KeyCode("Escape"))), 1)

parse_escape_sequence(bytes, checks) ==
    IF Len(bytes) = 1 THEN ParseOk(None, 0)
    ELSE IF At(bytes, 1) = b_LBRACKET THEN parse_csi_sequence(bytes, checks)
    ELSE IF At(bytes, 1) = b_O THEN parse_ss3_sequence(bytes)
    ELSE IF At(bytes, 1) < 128 /\ At(bytes, 1) # b_ESC THEN parse_alt_char(bytes)
    ELSE ParseOk(Some(create_key_input(FALSE, FALSE, KeyCode("Escape"))), 1)

\* parse_input. `checks` is the build profile: whether integer overflow
\* panics (debug) or wraps (release).
parse_input(bytes, checks) ==
    IF bytes = <<>> THEN ParseOk(None, 0)
    ELSE IF At(bytes, 0) < 128 /\ At(bytes, 0) # b_ESC /\ At(bytes, 0) # b_DEL
    THEN parse_ascii_char(bytes)
    ELSE IF At(bytes, 0) = b_ESC THEN parse_escape_sequence(bytes, checks)
    ELSE IF At(bytes, 0) = b_DEL
    THEN ParseOk(Some(create_key_input(FALSE, FALSE, KeyCode("Backspace"))), 1)
    ELSE parse_utf8_char(bytes)

---------------------------------------------------------------------------
(* The Terminal lifecycle *)

InitTerm ==
    /\ TERMINAL_EXISTS = FALSE
    /\ SIGWINCH_PIPE_FD = 0
    /\ handler = FALSE
    /\ terminals = {}
    /\ fdtab = [fd \in Fds |-> IF fd <= 2 THEN "std" ELSE "closed"]
    /\ termios \in InitialTermios
    /\ altScreen = FALSE
    /\ cursorVisible = TRUE
    /\ strayWrite = FALSE
    /\ last = [op |-> "init", res |-> "Ok", live |-> FALSE, failed |-> FALSE,
               t |-> NoTerminal]
    /\ dropped = FALSE

\* The other subsystems at rest.
IdleTerm == InitTerm /\ termios = {"ECHO", "ICANON", "OPOST", "CS8"}

InitStyle ==
    /\ style = RESET
    /\ styleText = <<>>
    /\ styleParsed = StyleErr
    /\ stylePhase = "build"

\* The frame an application starts with and the frames it composes into it.
FrameSizes == {rows_cols(1, 3)}
SubSizes == {rows_cols(1, 2)}

InitFrame ==
    /\ main \in {with_char_width_estimator(size, "Unicode") : size \in FrameSizes}
    /\ sub \in {with_char_width_estimator(size, "Unicode") : size \in SubSizes}
    /\ flast = [op |-> "init", position |-> ZERO, ok |-> TRUE]

IdleStyle == InitStyle
IdleFrame == InitFrame /\ main.size = rows_cols(1, 3) /\ sub.size = rows_cols(1, 2)

\* Terminal::new, line 192: last_frame is TerminalFrame::default(), no cursor is
\* set; the alternate screen is blank.
InitDraw ==
    /\ last_frame = with_char_width_estimator(rows_cols(0, 0), "Fixed")
    /\ cursor = None
    /\ screen = [cells |-> [p \in ScreenPositions |-> BlankGlyph],
                 cur |-> ZERO, sgr |-> RESET]
    /\ dlast = [op |-> "init", res |-> "Ok", out |-> <<>>]
    /\ lastOk = None
    /\ drawFailed = FALSE

IdleDraw == InitDraw

\* The frames an application writes text into: one row of two columns, with
\* the default estimator or with the Unicode one.
WriteSizes == {rows_cols(1, 2)}

InitWrite ==
    /\ wframe \in {with_char_width_estimator(size, estimator) :
                     size \in WriteSizes, estimator \in {"Fixed", "Unicode"}}
    /\ wlast = [s |-> <<>>, tail |-> ZERO, escape_sequence |-> <<>>, ok |-> TRUE]

IdleWrite == InitWrite /\ wframe.char_width_estimator = "Fixed"

\* InputReader::new over a source that has returned nothing yet; the program
\* is built with overflow checks or without.
InitInput ==
    /\ source = <<>>
    /\ closed = FALSE
    /\ buf = <<>>
    /\ rpc = "idle"
    /\ fed = <<>>
    /\ junk = FALSE
    /\ yielded = <<>>
    /\ ilast = [op |-> "new", bytes |-> <<>>, r |-> ParseOk(None, 0)]
    /\ overflow_checks \in BOOLEAN

IdleInput == InitInput /\ overflow_checks = TRUE

\* A live Terminal on which poll_event has not been called, with an empty
\* signal pipe.
InitPoll ==
    /\ ppc = "idle"
    /\ sigpipe = 0
    /\ sigwinches = 0
    /\ resizes = 0
    /\ ptimeout = None
    /\ elapsed = 0
    /\ entered = 0
    /\ tv = None
    /\ readfds = [input |-> FALSE, signal |-> FALSE]
    /\ selfails = 0
    /\ plast = [op |-> "new", res |-> "", errno |-> "", eintr |-> 0]

IdleLater == IdleWrite /\ IdleInput /\ InitPoll

Init == InitTerm /\ IdleStyle /\ IdleFrame /\ IdleDraw /\ IdleLater

Next ==
    \/ \E fail \in NewFailures, tcOk \in BOOLEAN, delivered \in 0 .. 2 :
          TerminalNew(fail, tcOk, delivered)
    \/ \E t \in terminals, tcOk \in BOOLEAN, delivered \in 0 .. 2 :
          TerminalDrop(t, tcOk, delivered)
    \/ HandleSigwinch
    \/ AppOpen
    \/ \E fd \in Fds : AppClose(fd)

Spec == Init /\ [][Next]_vars

---------------------------------------------------------------------------
(* A TerminalStyle built, written and read back *)

\* TerminalStyle::bold(), italic(), underline(), blink(), reverse(), dim(),
\* strikethrough()
StyleBuildAttribute(a) ==
    /\ stylePhase = "build"
    /\ ~style[a]
    /\ style' = SetAttribute(style, a)
    /\ UNCHANGED <<styleText, styleParsed, stylePhase>>
    /\ UNCHANGED notStyleVars

\* TerminalStyle::fg_color(c)
StyleBuildFg(c) ==
    /\ stylePhase = "build"
    /\ style.fg_color = NoColor
    /\ style' = [style EXCEPT !.fg_color = c]
    /\ UNCHANGED <<styleText, styleParsed, stylePhase>>
    /\ UNCHANGED notStyleVars

\* TerminalStyle::bg_color(c)
StyleBuildBg(c) ==
    /\ stylePhase = "build"
    /\ style.bg_color = NoColor
    /\ style' = [style EXCEPT !.bg_color = c]
    /\ UNCHANGED <<styleText, styleParsed, stylePhase>>
    /\ UNCHANGED notStyleVars

\* format!("{}", style)
StyleWrite ==
    /\ stylePhase = "build"
    /\ styleText' = StyleDisplay(style)
    /\ stylePhase' = "shown"
    /\ UNCHANGED <<style, styleParsed>>
    /\ UNCHANGED notStyleVars

\* text.parse::<TerminalStyle>()
StyleRead ==
    /\ stylePhase = "shown"
    /\ styleParsed' = StyleFromStr(styleText)
    /\ stylePhase' = "parsed"
    /\ UNCHANGED <<style, styleText>>
    /\ UNCHANGED notStyleVars

NextStyle ==
    \/ \E a \in StyleAttributes : StyleBuildAttribute(a)
    \/ \E c \in Colors : StyleBuildFg(c)
    \/ \E c \in Colors : StyleBuildBg(c)
    \/ StyleWrite
    \/ StyleRead

InitSpecStyle == IdleTerm /\ InitStyle /\ IdleFrame /\ IdleDraw /\ IdleLater

SpecStyle == InitSpecStyle /\ [][NextStyle]_vars

---------------------------------------------------------------------------
(* FromStr applied to texts the writer produces and to texts it does not *)

\* A text has at most MaxParams parameters after the leading 0.
MaxParams == 3

FgPrefix == <<";", "3", "8", ";", "2", ";">>
BgPrefix == <<";", "4", "8", ";", "2", ";">>

\* The parameters of the texts, each without its leading ';': the seven
\* attributes; numbers the writer never produces; a foreground and a
\* background colour as the writer produces them; the same with a signed and
\* with a zero-padded component; a component above 255.
AttributeParams == {<<"1">>, <<"2">>, <<"3">>, <<"4">>, <<"5">>, <<"7">>, <<"9">>}
UnsupportedParams == {<<"6">>, <<"1", "0">>, <<"3", "8", ";", "5", ";", "1">>}
WrittenColorParams ==
    {Tail(FgPrefix) \o ColorParams(<<0, 255, 0>>), Tail(BgPrefix) \o ColorParams(<<38, 2, 48>>)}
PaddedColorParams ==
    {Tail(FgPrefix) \o <<"+">> \o ColorParams(<<0, 255, 0>>),
     Tail(BgPrefix) \o <<"0">> \o ColorParams(<<38, 2, 48>>)}
OverflowColorParams == {Tail(FgPrefix) \o <<"2", "5", "6", ";", "0", ";", "0">>}

StyleParams ==
    AttributeParams \cup UnsupportedParams \cup WrittenColorParams
        \cup PaddedColorParams \cup OverflowColorParams

StylePrefixes == {<<"ESC", "[", "0">>, <<"ESC", "[">>, <<"[", "0">>}
StyleEndings == {<<"m">>, <<>>, <<"m", "x">>}

\* The parameters, each after a ';'.
RECURSIVE JoinParams(_)
JoinParams(params) ==
    IF params = <<>> THEN <<>>
    ELSE <<";">> \o Head(params) \o JoinParams(Tail(params))

StyleTexts ==
    {prefix \o JoinParams(params) \o ending :
        prefix \in StylePrefixes,
        params \in UNION {[1 .. n -> StyleParams] : n \in 0 .. MaxParams},
        ending \in StyleEndings}

\* text.parse::<TerminalStyle>() on a text from anywhere.
StyleParse(text) ==
    /\ stylePhase = "build"
    /\ styleText' = text
    /\ \E r \in {StyleFromStr(text)} : styleParsed' = r
    /\ stylePhase' = "parsed"
    /\ UNCHANGED style
    /\ UNCHANGED notStyleVars

NextStyleParse == \E text \in StyleTexts : StyleParse(text)

InitSpecStyleParse == IdleTerm /\ InitStyle /\ IdleFrame /\ IdleDraw /\ IdleLater

SpecStyleParse == InitSpecStyleParse /\ [][NextStyleParse]_vars

---------------------------------------------------------------------------
(* Frames written and composed *)

\* What an application writes: letters, wide characters, a line feed and a
\* control character.
WritePieces == {<<"a">>, <<"W2">>, <<"W3">>, <<"LF">>, <<"BEL">>}

RECURSIVE WriteStrings(_)
WriteStrings(n) ==
    IF n = 0 THEN {<<>>}
    ELSE WriteStrings(n - 1)
         \cup {s \o piece : s \in WriteStrings(n - 1), piece \in WritePieces}

\* The writes the model makes: cursor_tail and the pending sequence stay small.
WithinBounds(f) ==
    /\ f.tail.row <= MaxRow
    /\ f.tail.col <= f.size.cols + MaxOver
    /\ Len(f.escape_sequence) <= MaxEscape

\* write!(main, "{}", s)
FrameWrite(s) ==
    /\ flast.ok
    /\ \E r \in {write_str(main, s)} :
          /\ WithinBounds(r.f)
          /\ main' = r.f
          /\ flast' = [op |-> "write", position |-> ZERO, ok |-> r.ok]
    /\ UNCHANGED sub
    /\ UNCHANGED notFrameVars

\* write!(sub, "{}", s)
SubWrite(s) ==
    /\ flast.ok
    /\ \E r \in {write_str(sub, s)} :
          /\ WithinBounds(r.f)
          /\ sub' = r.f
          /\ flast' = [op |-> "subwrite", position |-> ZERO, ok |-> r.ok]
    /\ UNCHANGED main
    /\ UNCHANGED notFrameVars

\* sub = TerminalFrame::with_char_width_estimator(size, estimator)
SubNew(size, estimator) ==
    /\ flast.ok
    /\ sub' = with_char_width_estimator(size, estimator)
    /\ flast' = [op |-> "subnew", position |-> ZERO, ok |-> TRUE]
    /\ UNCHANGED main
    /\ UNCHANGED notFrameVars

\* main.draw(position, &sub)
FrameDrawSub(position) ==
    /\ flast.ok
    /\ main' = FrameDraw(main, position, sub)
    /\ flast' = [op |-> "draw", position |-> position, ok |-> TRUE]
    /\ UNCHANGED sub
    /\ UNCHANGED notFrameVars

\* sub.draw(position, &main)
SubDrawFrame(position) ==
    /\ flast.ok
    /\ sub' = FrameDraw(sub, position, main)
    /\ flast' = [op |-> "subdraw", position |-> position, ok |-> TRUE]
    /\ UNCHANGED main
    /\ UNCHANGED notFrameVars

\* The positions a frame is composed at.
DrawPositions == {row_col(0, 0), row_col(0, 1), row_col(0, 2), row_col(1, 0)}

NextFrame ==
    \/ \E s \in WriteStrings(MaxWrite) : FrameWrite(s)
    \/ \E s \in WriteStrings(MaxWrite) : SubWrite(s)
    \/ \E size \in SubSizes, estimator \in {"Unicode"} : SubNew(size, estimator)
    \/ \E position \in DrawPositions : FrameDrawSub(position)
    \/ \E position \in DrawPositions : SubDrawFrame(position)

InitSpecFrame == IdleTerm /\ IdleStyle /\ InitFrame /\ IdleDraw /\ IdleLater

SpecFrame == InitSpecFrame /\ [][NextFrame]_vars

---------------------------------------------------------------------------
(* Frames drawn on a live Terminal *)

\* The state Terminal::new leaves when it succeeds in a process that has its
\* three standard descriptors open on a tty in cooked mode.
LiveTerm ==
    LET tab == [fd \in Fds |-> IF fd <= 2 THEN "std" ELSE "closed"]
        cooked == {"ECHO", "ICANON", "OPOST", "CS8"}
        this == [signal |-> PipeRead(tab), original_termios |-> cooked,
                 wfd |-> PipeWrite(tab)]
    IN  /\ TERMINAL_EXISTS = TRUE
        /\ SIGWINCH_PIPE_FD = PipeWrite(tab)
        /\ handler = TRUE
        /\ terminals = {this}
        /\ fdtab = AfterPipe(tab)
        /\ termios = RawOf(cooked)
        /\ altScreen = TRUE
        /\ cursorVisible = FALSE
        /\ strayWrite = FALSE
        /\ last = [op |-> "new", res |-> "Ok", live |-> FALSE, failed |-> FALSE,
                   t |-> this]
        /\ dropped = FALSE

\* The sizes of the frames an application draws, and what it writes into them.
DrawSizes == {rows_cols(1, 3), rows_cols(2, 2)}

\* A bold letter: the Display of a bold style, the letter, the Display of RESET.
BoldA == StyleDisplay(SetAttribute(RESET, "bold")) \o <<"a">> \o StyleDisplay(RESET)

DrawStrings ==
    {<<>>, <<"a", "a", "a">>, <<"W2", "a">>, <<"a", "W2">>, <<"W2">> \o BoldA,
     BoldA, <<"a", "LF", "W2">>}

\* The places where Terminal::draw can fail, in the order of the code:
\* hide_cursor, the write of the clear-screen sequence, the final flush.
DrawFailures == {"none", "hide", "clear", "flush"}

\* What a draw that fails at `fail` has written.
Written(fail, full) ==
    IF fail = "hide" THEN <<>> ELSE IF fail = "clear" THEN <<Hide>> ELSE full

\* The tty's cursor after it has read out: shown by show, hidden by hide.
CursorShown(out, shown) ==
    IF \E i \in 1 .. Len(out) : out[i] = Show THEN TRUE
    ELSE IF \E i \in 1 .. Len(out) : out[i] = Hide THEN FALSE
    ELSE shown

\* Terminal::draw does not store a frame it failed to flush.
DrawStoresFrame_never(old_frame, frame, fail) == old_frame
\* Terminal::draw, lines 412-415 and 452: last_frame when draw returns.
DrawStoresFrame(old_frame, frame, fail) ==
    IF fail = "none" THEN frame
    ELSE IF fail = "flush" THEN ResetLast(old_frame, frame)
    ELSE old_frame

\* let mut frame = TerminalFrame::with_char_width_estimator(size, ...);
\* write!(frame, "{}", s); terminal.draw(frame), which fails at some place or
\* at none.
TerminalDraw(size, s) ==
    /\ terminals # {}
    /\ \E w \in {write_str(with_char_width_estimator(size, "Unicode"), s)} :
          /\ w.ok
          /\ \E frame \in {finish(w.f)} :
             \E full \in {DrawOutput(last_frame, frame, cursor)} :
             \E fail \in DrawFailures :
             \E out \in {Written(fail, full)} :
                /\ fail = "clear" => last_frame.size # frame.size
                /\ last_frame' = DrawStoresFrame(last_frame, frame, fail)
                /\ screen' = TtyReadAll(screen, out, 1)
                /\ cursorVisible' = CursorShown(out, cursorVisible)
                /\ dlast' = [op |-> "draw", res |-> IF fail = "none" THEN "Ok" ELSE "Err",
                             out |-> out]
                /\ lastOk' = IF fail = "none" THEN Some(frame) ELSE lastOk
                /\ drawFailed' = (drawFailed \/ fail # "none")
    /\ UNCHANGED cursor
    /\ UNCHANGED <<TERMINAL_EXISTS, SIGWINCH_PIPE_FD, handler, terminals, fdtab,
                   termios, altScreen, strayWrite, last, dropped>>
    /\ UNCHANGED <<styleVars, frameVars, laterVars>>

\* Terminal::set_cursor
SetCursor(position) ==
    /\ terminals # {}
    /\ cursor' = position
    /\ dlast' = [dlast EXCEPT !.op = "set_cursor"]
    /\ UNCHANGED <<last_frame, screen, lastOk, drawFailed>>
    /\ UNCHANGED <<termVars, styleVars, frameVars, laterVars>>

CursorPositions == {None, Some(row_col(0, 1))}

NextDraw ==
    \/ \E size \in DrawSizes, s \in DrawStrings : TerminalDraw(size, s)
    \/ \E position \in CursorPositions : SetCursor(position)

InitSpecDraw == LiveTerm /\ IdleStyle /\ IdleFrame /\ InitDraw /\ IdleLater

SpecDraw == InitSpecDraw /\ [][NextDraw]_vars

---------------------------------------------------------------------------
(* A frame as a text sink: write_str call by call *)

\* write_str calls that would move cursor_tail past row WriteMaxRow or past
\* column WriteMaxCol, or leave more than WriteMaxEscape characters pending,
\* are not made.
WriteMaxRow == 2
WriteMaxCol == 4
WriteMaxEscape == 5

\* The styles an application writes.
Bold == SetAttribute(RESET, "bold")
Italic == SetAttribute(RESET, "italic")
WriteStyles == {RESET, Bold, Italic}

\* Plain characters: a letter, a wide character, the newline, a control
\* character.
PlainChars == {"a", "W2", "LF", "BEL"}

\* What one write_str call gets: a plain character, a whole style sequence,
\* the first write! of Display for TerminalStyle (style.rs line 185), a bare
\* ESC that no TerminalStyle produced, or a short mix of these.
WriteTexts ==
    {<<c>> : c \in PlainChars}
    \cup {StyleDisplay(st) : st \in WriteStyles}
    \cup {<<"ESC", "[", "0">>, <<"ESC">>}
    \cup {<<"LF", "LF">>, <<"a", "LF">>, <<"LF", "a">>, <<"W2", "a">>,
          <<"ESC", "LF">>, StyleDisplay(Bold) \o <<"a">>,
          <<"a">> \o StyleDisplay(Italic) \o <<"a", "LF">>}

\* The later write! calls of Display for TerminalStyle, style.rs lines 188,
\* 194 and 215.
StyleParts == {<<";", "1">>, <<";", "3">>, <<"m">>}

WriteWithinBounds(r) ==
    /\ r.f.tail.row <= WriteMaxRow
    /\ r.f.tail.col <= WriteMaxCol
    /\ r.ok => Len(r.f.escape_sequence) <= WriteMaxEscape

\* wframe.write_str(s), with no sequence pending or right after a bare ESC; a
\* panic ends the use of the frame.
WriteText(s) ==
    /\ wlast.ok
    /\ wframe.escape_sequence \in {<<>>, <<"ESC">>}
    /\ \E r \in {write_str(wframe, s)} :
          /\ WriteWithinBounds(r)
          /\ wframe' = r.f
          /\ wlast' = [s |-> s, tail |-> wframe.tail,
                       escape_sequence |-> wframe.escape_sequence, ok |-> r.ok]
    /\ UNCHANGED notWriteVars

\* wframe.write_str(s) from inside Display::fmt, after its first write!.
WriteStylePart(s) ==
    /\ wlast.ok
    /\ wframe.escape_sequence # <<>>
    /\ \E r \in {write_str(wframe, s)} :
          /\ WriteWithinBounds(r)
          /\ wframe' = r.f
          /\ wlast' = [s |-> s, tail |-> wframe.tail,
                       escape_sequence |-> wframe.escape_sequence, ok |-> r.ok]
    /\ UNCHANGED notWriteVars

NextWrite ==
    \/ \E s \in WriteTexts : WriteText(s)
    \/ \E s \in StyleParts : WriteStylePart(s)

InitSpecWrite ==
    IdleTerm /\ IdleStyle /\ IdleFrame /\ IdleDraw /\ InitWrite /\ IdleInput /\ InitPoll

SpecWrite == InitSpecWrite /\ [][NextWrite]_vars

---------------------------------------------------------------------------
(* An InputReader fed the bytes of events and read call by call *)

\* At most MaxEvents events go into the source, and read_input returns at most
\* MaxYield.
MaxEvents == 2
MaxYield == 3

\* InputReader::new: buf is vec![0; 64].
BufSize == 64

\* Events and the bytes a terminal sends for them, as the tests of input.rs
\* give them: 'a', the Escape key, Up, Ctrl+Up, a left press at (0,0) in SGR
\* form, and the two-byte character U+00E9.
FedInputs ==
    {[bytes |-> <<b_a>>, input |-> create_key_input(FALSE, FALSE, KeyChar(b_a))],
     [bytes |-> <<b_ESC>>, input |-> create_key_input(FALSE, FALSE, KeyCode("Escape"))],
     [bytes |-> <<b_ESC, b_LBRACKET, b_A>>,
      input |-> create_key_input(FALSE, FALSE, KeyCode("Up"))],
     [bytes |-> <<b_ESC, b_LBRACKET, b_1, b_SEMI, b_5, b_A>>,
      input |-> create_key_input(TRUE, FALSE, KeyCode("Up"))],
     [bytes |-> <<b_ESC, b_LBRACKET, b_LT, b_0, b_SEMI, b_1, b_SEMI, b_1, b_M>>,
      input |-> MouseInput("LeftPress", ZERO, FALSE, FALSE, FALSE)],
     [bytes |-> <<195, 169>>, input |-> create_key_input(FALSE, FALSE, KeyChar(233))]}

\* Bytes that are no event's: an invalid byte, an unknown CSI sequence, an SGR
\* mouse sequence whose body is not UTF-8, a modified arrow whose modifier
\* byte is below '0', an SGR mouse sequence of two parameters.
JunkBytes ==
    {<<255>>,
     <<b_ESC, b_LBRACKET, b_X>>,
     <<b_ESC, b_LBRACKET, b_LT, 255, b_M>>,
     <<b_ESC, b_LBRACKET, b_1, b_SEMI, b_BANG, b_A>>,
     <<b_ESC, b_LBRACKET, b_LT, b_1, b_SEMI, b_2, b_M>>}

\* The terminal sends the bytes of an event.
Feed(e) ==
    /\ ~closed
    /\ Len(fed) < MaxEvents
    /\ source' = source \o e.bytes
    /\ fed' = Append(fed, e.input)
    /\ ilast' = [op |-> "feed", bytes |-> e.bytes, r |-> ParseOk(None, 0)]
    /\ UNCHANGED <<closed, buf, rpc, junk, yielded, overflow_checks>>
    /\ UNCHANGED notInputVars

\* The source gets bytes that are no event's.
FeedJunk(bytes) ==
    /\ ~closed
    /\ ~junk
    /\ source' = source \o bytes
    /\ junk' = TRUE
    /\ ilast' = [op |-> "junk", bytes |-> bytes, r |-> ParseOk(None, 0)]
    /\ UNCHANGED <<closed, buf, rpc, fed, yielded, overflow_checks>>
    /\ UNCHANGED notInputVars

\* The source ends: once its bytes are read, read returns 0.
Close ==
    /\ ~closed
    /\ closed' = TRUE
    /\ ilast' = [op |-> "close", bytes |-> <<>>, r |-> ParseOk(None, 0)]
    /\ UNCHANGED <<source, buf, rpc, fed, junk, yielded, overflow_checks>>
    /\ UNCHANGED notInputVars

\* read_input is called, line 128: with bytes buffered it parses them first.
ReadInput ==
    /\ rpc = "idle"
    /\ Len(yielded) < MaxYield
    /\ rpc' = IF buf # <<>> THEN "buf1" ELSE "read"
    /\ ilast' = [op |-> "call", bytes |-> buf, r |-> ParseOk(None, 0)]
    /\ UNCHANGED <<source, closed, buf, fed, junk, yielded, overflow_checks>>
    /\ UNCHANGED notInputVars

\* read_input_from_buf, lines 146-147, leaving the buffer as it is.
DropConsumed_none(bytes, consumed_size) == bytes
\* read_input_from_buf, lines 146-147: the consumed bytes leave the buffer.
DropConsumed(bytes, consumed_size) == Skip(bytes, consumed_size)

\* One turn of the loop of read_input_from_buf, lines 145-151. An Err of
\* parse_input leaves through the `?` of line 145, before the buffer is touched.
ParseTurn ==
    /\ rpc \in {"buf1", "buf2"}
    /\ \E r \in {parse_input(buf, overflow_checks)} :
          /\ ilast' = [op |-> "parse", bytes |-> buf, r |-> r]
          /\ IF r.kind = "Panic"
             THEN rpc' = "panicked" /\ UNCHANGED <<buf, yielded>>
             ELSE IF r.kind = "Err"
             THEN rpc' = "idle" /\ UNCHANGED <<buf, yielded>>
             ELSE /\ buf' = DropConsumed(buf, r.consumed)
                  /\ IF r.input = None /\ r.consumed > 0
                     THEN rpc' = rpc /\ UNCHANGED yielded
                     ELSE IF r.input # None
                     THEN rpc' = "idle" /\ yielded' = Append(yielded, r.input[1])
                     ELSE /\ rpc' = IF rpc = "buf1" THEN "read" ELSE "idle"
                          /\ UNCHANGED yielded
    /\ UNCHANGED <<source, closed, fed, junk, overflow_checks>>

\* The turn, in a program that does nothing else meanwhile.
ParseStep == ParseTurn /\ UNCHANGED notInputVars

\* self.inner.read(&mut self.buf[self.buf_offset..]), lines 134-139: some of
\* the bytes the source has, as many as fit.
InnerReadCall(read_size) ==
    /\ rpc = "read"
    /\ read_size >= 1
    /\ read_size <= Len(source)
    /\ read_size <= BufSize - Len(buf)
    /\ buf' = buf \o Take(source, read_size)
    /\ source' = Skip(source, read_size)
    /\ rpc' = "buf2"
    /\ ilast' = [op |-> "read", bytes |-> Take(source, read_size), r |-> ParseOk(None, 0)]
    /\ UNCHANGED <<closed, fed, junk, yielded, overflow_checks>>

\* The read, in a program that does nothing else meanwhile.
InnerRead(read_size) == InnerReadCall(read_size) /\ UNCHANGED notInputVars

\* read returns 0, lines 135-137: the source has ended, or the buffer is full.
InnerReadEof ==
    /\ rpc = "read"
    /\ (source = <<>> /\ closed) \/ Len(buf) = BufSize
    /\ rpc' = "idle"
    /\ ilast' = [op |-> "eof", bytes |-> buf, r |-> ParseErr]
    /\ UNCHANGED <<source, closed, buf, fed, junk, yielded, overflow_checks>>
    /\ UNCHANGED notInputVars

\* The longest byte form of an event.
MaxRead == 9

NextInput ==
    \/ \E e \in FedInputs : Feed(e)
    \/ \E bytes \in JunkBytes : FeedJunk(bytes)
    \/ Close
    \/ ReadInput
    \/ ParseStep
    \/ \E read_size \in 1 .. MaxRead : InnerRead(read_size)
    \/ InnerReadEof

InitSpecInput ==
    IdleTerm /\ IdleStyle /\ IdleFrame /\ IdleDraw /\ IdleWrite /\ InitInput /\ InitPoll

SpecInput == InitSpecInput /\ [][NextInput]_vars

\* The same reader over fewer sources, for the properties of its progress: a
\* letter, Up and the two-byte character; an invalid byte, an unknown CSI
\* sequence and the modified arrow with a modifier byte below '0'.
LiveInputs == {e \in FedInputs : Len(e.bytes) <= 3 /\ e.bytes # <<b_ESC>>}
LiveJunk == {bytes \in JunkBytes : bytes[Len(bytes)] # b_M}

NextInputLive ==
    \/ \E e \in LiveInputs : Feed(e)
    \/ \E bytes \in LiveJunk : FeedJunk(bytes)
    \/ Close
    \/ ReadInput
    \/ ParseStep
    \/ \E read_size \in 1 .. MaxRead : InnerRead(read_size)
    \/ InnerReadEof

\* The loop of read_input_from_buf is not left waiting: its next turn runs.
SpecInputLive == InitSpecInput /\ [][NextInputLive]_vars /\ WF_vars(ParseStep)

---------------------------------------------------------------------------
(* An InputReader fed an SGR mouse report that does not end *)

\* The report is fed one digit or LongChunk digits at a time, and at most
\* MaxStream bytes of it in all.
LongChunk == 16
MaxStream == 66

Zeros(n) == [i \in 1 .. n |-> b_0]

\* ESC [ <, which parse_sgr_mouse_sequence (lines 352-363) holds to be
\* incomplete until an 'M' or an 'm' follows.
SgrStart == <<b_ESC, b_LBRACKET, b_LT>>

\* The terminal sends the start of the report, and then its digits.
FeedPiece(bytes) ==
    /\ ~closed
    /\ bytes = SgrStart <=> ~junk
    /\ Len(source) + Len(buf) + Len(bytes) <= MaxStream
    /\ source' = source \o bytes
    /\ junk' = TRUE
    /\ ilast' = [op |-> "junk", bytes |-> bytes, r |-> ParseOk(None, 0)]
    /\ UNCHANGED <<closed, buf, rpc, fed, yielded, overflow_checks>>
    /\ UNCHANGED notInputVars

NextFill ==
    \/ \E bytes \in {SgrStart, Zeros(1), Zeros(LongChunk)} : FeedPiece(bytes)
    \/ Close
    \/ ReadInput
    \/ ParseStep
    \/ \E read_size \in 1 .. MaxRead : InnerRead(read_size)
    \/ InnerReadEof

InitSpecFill ==
    IdleTerm /\ IdleStyle /\ IdleFrame /\ IdleDraw /\ IdleWrite /\ InitInput /\ InitPoll

SpecFill == InitSpecFill /\ [][NextFill]_vars

---------------------------------------------------------------------------
(* parse_input applied to the byte forms of keys and mouse reports *)

\* SGR mouse reports carry a button number of at most MaxButton.
MaxButton == 127

\* u8
Bytes == 0 .. 255

\* The decimal digits of n, as bytes.
RECURSIVE DecBytes(_)
DecBytes(n) == IF n < 10 THEN <<b_0 + n>> ELSE DecBytes(n \div 10) \o <<b_0 + (n % 10)>>

\* ESC [ 1 ; m X
ModifiedArrowBytes(m, final) == <<b_ESC, b_LBRACKET, b_1, b_SEMI, m, final>>

\* ESC [ N ; m ~
ModifiedSpecialBytes(n, m) == <<b_ESC, b_LBRACKET, n, b_SEMI, m, b_TILDE>>

\* ESC [ N ~
SpecialBytes(n) == <<b_ESC, b_LBRACKET, n, b_TILDE>>

\* ESC [ < button ; x ; y and the terminator
SgrBytes(button, x, y, terminator) ==
    <<b_ESC, b_LBRACKET, b_LT>> \o DecBytes(button) \o <<b_SEMI>> \o DecBytes(x)
        \o <<b_SEMI>> \o DecBytes(y) \o <<terminator>>

\* ESC [ M b x y
X10Bytes(b, x, y) == <<b_ESC, b_LBRACKET, b_M, b, x, y>>

\* The coordinates of the mouse reports: 0, the first column and a later one;
\* in an X10 report they are bytes, 33 for the first column.
SgrCoords == {0, 1, 3}
X10Coords == {32, 33, 35}

ParseInputs ==
    {ModifiedArrowBytes(m, final) : m \in b_1 .. b_8, final \in b_A .. b_D}
    \cup {ModifiedSpecialBytes(n, m) : n \in b_1 .. b_8, m \in b_1 .. b_8}
    \cup {SpecialBytes(n) : n \in b_1 .. b_8}
    \cup {<<b_ESC>>}
    \cup {<<b_ESC, b>> : b \in Bytes}
    \cup {<<b>> : b \in 0 .. 31}
    \cup {SgrBytes(button, x, y, terminator) :
            button \in 0 .. MaxButton, x \in SgrCoords, y \in SgrCoords,
            terminator \in {b_M, b_m}}
    \cup {X10Bytes(b, x, y) : b \in Bytes, x \in X10Coords, y \in X10Coords}

\* parse_input(bytes), on a buffer nothing has been parsed from yet.
Parse(bytes) ==
    /\ ilast.op = "new"
    /\ \E r \in {parse_input(bytes, overflow_checks)} :
          ilast' = [op |-> "parse_input", bytes |-> bytes, r |-> r]
    /\ UNCHANGED <<source, closed, buf, rpc, fed, junk, yielded, overflow_checks>>
    /\ UNCHANGED notInputVars

\* parse_input on the bytes the last call left, as read_input_from_buf
\* (lines 145-147) goes on after a call that consumed a part of the buffer.
ParseRest ==
    /\ ilast.op = "parse_input"
    /\ ilast.r.kind = "Ok"
    /\ ilast.r.consumed > 0
    /\ ilast.r.consumed < Len(ilast.bytes)
    /\ \E rest \in {DropConsumed(ilast.bytes, ilast.r.consumed)} :
       \E r \in {parse_input(rest, overflow_checks)} :
          ilast' = [op |-> "rest", bytes |-> rest, r |-> r]
    /\ UNCHANGED <<source, closed, buf, rpc, fed, junk, yielded, overflow_checks>>
    /\ UNCHANGED notInputVars

NextParse ==
    \/ \E bytes \in ParseInputs : Parse(bytes)
    \/ ParseRest

InitSpecParse ==
    IdleTerm /\ IdleStyle /\ IdleFrame /\ IdleDraw /\ IdleWrite /\ InitInput /\ InitPoll

SpecParse == InitSpecParse /\ [][NextParse]_vars

---------------------------------------------------------------------------
(* terminal.rs: poll_event over stdin and the SIGWINCH pipe *)

\* At most MaxSignals SIGWINCH are delivered, select fails at most MaxFails
\* times for another reason, and the clock is followed up to MaxTime ticks
\* after start_time.
MaxSignals == 2
MaxFails == 1
MaxTime == 2

\* The timeouts poll_event is called with: none, or one tick.
PollTimeouts == {None, Some(1)}

\* The failures of select that no SIGWINCH delivery caused: another signal
\* caught during the wait, a bad descriptor.
SelectErrnos == {"EINTR", "EBADF"}

\* The events stdin carries: a letter and Up.
PollInputs == {e \in FedInputs : e.bytes \in {<<b_a>>, <<b_ESC, b_LBRACKET, b_A>>}}

\* Bytes that are no event's: the SGR mouse sequence whose body is not UTF-8.
PollJunk == {bytes \in JunkBytes : Len(bytes) = 5 /\ bytes[4] = 255}

\* Lines 276-284: the timeval select gets is what is left of the timeout since
\* start_time, and a null pointer when there is no timeout.
RemainingTimeout(timeout, start_time_elapsed) ==
    IF timeout = None THEN None
    ELSE Some(saturating_sub(timeout[1], start_time_elapsed))

\* Lines 294-299, with every failure of select returned.
SelectErrorContinues_never(errno) == FALSE
\* Lines 294-299: ErrorKind::Interrupted, which is EINTR, goes round the loop.
SelectErrorContinues(errno) == errno = "EINTR"

\* select's view of the two descriptors: stdin has bytes or has ended, the
\* pipe has a byte.
InputReady == source # <<>> \/ closed
SignalReady == sigpipe > 0

\* What the InputReader returned, once rpc is "idle" again.
ReaderReturn(step) ==
    IF step.op = "eof" \/ step.r.kind = "Err" THEN "Err"
    ELSE IF step.r.input # None THEN "Some"
    ELSE "None"

\* A step of the call that is running.
PollStepped(op, res, errno) ==
    [op |-> op, res |-> res, errno |-> errno, eintr |-> plast.eintr]

\* poll_event returns.
PollReturn(res, errno) ==
    /\ ppc' = "idle"
    /\ plast' = PollStepped("return", res, errno)

\* poll_event(timeout) is called, line 261: read_input_from_buf comes first.
PollEvent(timeout) ==
    /\ ppc = "idle"
    /\ rpc = "idle"
    /\ ppc' = "frombuf"
    /\ rpc' = "buf2"
    /\ ptimeout' = timeout
    /\ plast' = [op |-> "call", res |-> "", errno |-> "", eintr |-> 0]
    /\ ilast' = [op |-> "call", bytes |-> buf, r |-> ParseOk(None, 0)]
    /\ UNCHANGED <<source, closed, buf, fed, junk, yielded, overflow_checks>>
    /\ UNCHANGED <<sigpipe, sigwinches, resizes, elapsed, entered, tv, readfds, selfails>>
    /\ UNCHANGED notPollVars

\* Lines 261-265: a turn of read_input_from_buf; its Err and its event are
\* returned, and with None the clock is started and the loop entered.
PollFromBuf ==
    /\ ppc = "frombuf"
    /\ ParseTurn
    /\ IF rpc' # "idle"
       THEN UNCHANGED <<ppc, plast, elapsed>>
       ELSE \E ret \in {ReaderReturn(ilast')} :
               IF ret = "Err" THEN PollReturn("Err", "parse") /\ UNCHANGED elapsed
               ELSE IF ret = "Some" THEN PollReturn("Input", "") /\ UNCHANGED elapsed
               ELSE /\ ppc' = "select"
                    /\ elapsed' = 0
                    /\ plast' = PollStepped("start", "", "")
    /\ UNCHANGED <<sigpipe, sigwinches, resizes, ptimeout, entered, tv, readfds, selfails>>
    /\ UNCHANGED notPollVars

\* Lines 267-292: the descriptor set and the timeval are made and select is
\* entered.
SelectEnter ==
    /\ ppc = "select"
    /\ ppc' = "blocked"
    /\ tv' = RemainingTimeout(ptimeout, elapsed)
    /\ entered' = elapsed
    /\ plast' = PollStepped("select", "", "")
    /\ UNCHANGED <<sigpipe, sigwinches, resizes, ptimeout, elapsed, readfds, selfails>>
    /\ UNCHANGED inputVars
    /\ UNCHANGED notPollVars

\* Time passes, in the loop or in select; select does not wait past its
\* timeout.
Tick ==
    /\ ppc \in {"select", "blocked"}
    /\ elapsed < MaxTime
    /\ ppc = "blocked" /\ tv # None => elapsed - entered < tv[1]
    /\ elapsed' = elapsed + 1
    /\ UNCHANGED <<ppc, sigpipe, sigwinches, resizes, ptimeout, entered, tv, readfds,
                   selfails, plast>>
    /\ UNCHANGED inputVars
    /\ UNCHANGED notPollVars

\* Lines 300-302: select returns 0, its timeout over and no descriptor
\* readable.
SelectTimeout ==
    /\ ppc = "blocked"
    /\ tv # None
    /\ elapsed - entered >= tv[1]
    /\ ~InputReady
    /\ ~SignalReady
    /\ PollReturn("None", "")
    /\ UNCHANGED <<sigpipe, sigwinches, resizes, ptimeout, elapsed, entered, tv, readfds,
                   selfails>>
    /\ UNCHANGED inputVars
    /\ UNCHANGED notPollVars

\* Lines 305-312: select returns the readable descriptors; stdin is looked at
\* first, with read_input, and the pipe only if stdin is not readable.
SelectReady ==
    /\ ppc = "blocked"
    /\ InputReady \/ SignalReady
    /\ readfds' = [input |-> InputReady, signal |-> SignalReady]
    /\ plast' = PollStepped("ready", "", "")
    /\ IF InputReady
       THEN /\ ppc' = "reading"
            /\ rpc' = IF buf # <<>> THEN "buf1" ELSE "read"
       ELSE /\ ppc' = "resize"
            /\ UNCHANGED rpc
    /\ UNCHANGED <<source, closed, buf, fed, junk, yielded, ilast, overflow_checks>>
    /\ UNCHANGED <<sigpipe, sigwinches, resizes, ptimeout, elapsed, entered, tv, selfails>>
    /\ UNCHANGED notPollVars

\* Lines 306-312, once read_input has returned: its Err and its event are
\* returned; with None the pipe is looked at, and the loop goes round if it was
\* not readable.
AfterReadInput ==
    IF rpc' # "idle"
    THEN UNCHANGED <<ppc, plast>>
    ELSE \E ret \in {ReaderReturn(ilast')} :
            IF ret = "Err" THEN PollReturn("Err", "read")
            ELSE IF ret = "Some" THEN PollReturn("Input", "")
            ELSE /\ ppc' = IF readfds.signal THEN "resize" ELSE "select"
                 /\ plast' = PollStepped("none", "", "")

\* read_input inside poll_event: a turn of its parsing loop.
PollParse ==
    /\ ppc = "reading"
    /\ ParseTurn
    /\ AfterReadInput
    /\ UNCHANGED <<sigpipe, sigwinches, resizes, ptimeout, elapsed, entered, tv, readfds,
                   selfails>>
    /\ UNCHANGED notPollVars

\* read_input inside poll_event: its read of stdin.
PollInnerRead(read_size) ==
    /\ ppc = "reading"
    /\ InnerReadCall(read_size)
    /\ UNCHANGED <<ppc, plast>>
    /\ UNCHANGED <<sigpipe, sigwinches, resizes, ptimeout, elapsed, entered, tv, readfds,
                   selfails>>
    /\ UNCHANGED notPollVars

\* wait_for_resize, lines 348-352, from line 311: one byte leaves the pipe and
\* the size read from the tty is returned as a Resize event.
WaitForResize ==
    /\ ppc = "resize"
    /\ sigpipe' = sigpipe - 1
    /\ resizes' = resizes + 1
    /\ PollReturn("Resize", "")
    /\ UNCHANGED <<sigwinches, ptimeout, elapsed, entered, tv, readfds, selfails>>
    /\ UNCHANGED inputVars
    /\ UNCHANGED notPollVars

\* Lines 294-299: select has returned -1 with this errno.
SelectFailed(errno) ==
    IF SelectErrorContinues(errno)
    THEN /\ ppc' = "select"
         /\ plast' = [op |-> "failed", res |-> "", errno |-> errno,
                      eintr |-> plast.eintr + 1]
    ELSE PollReturn("Err", errno)

\* select fails, no SIGWINCH being the cause.
SelectFails(errno) ==
    /\ ppc = "blocked"
    /\ selfails < MaxFails
    /\ selfails' = selfails + 1
    /\ SelectFailed(errno)
    /\ UNCHANGED <<sigpipe, sigwinches, resizes, ptimeout, elapsed, entered, tv, readfds>>
    /\ UNCHANGED inputVars
    /\ UNCHANGED notPollVars

\* SIGWINCH is delivered: handle_sigwinch, lines 555-559, writes a byte to the
\* pipe; the handler is installed without SA_RESTART (line 567), so a select
\* that was waiting returns -1 with EINTR.
Sigwinch ==
    /\ sigwinches < MaxSignals
    /\ sigwinches' = sigwinches + 1
    /\ sigpipe' = sigpipe + 1
    /\ IF ppc = "blocked"
       THEN SelectFailed("EINTR")
       ELSE UNCHANGED <<ppc, plast>>
    /\ UNCHANGED <<resizes, ptimeout, elapsed, entered, tv, readfds, selfails>>
    /\ UNCHANGED inputVars
    /\ UNCHANGED notPollVars

NextPoll ==
    \/ \E e \in PollInputs : Feed(e)
    \/ \E bytes \in PollJunk : FeedJunk(bytes)
    \/ Sigwinch
    \/ \E timeout \in PollTimeouts : PollEvent(timeout)
    \/ PollFromBuf
    \/ SelectEnter
    \/ Tick
    \/ SelectTimeout
    \/ SelectReady
    \/ PollParse
    \/ \E read_size \in 1 .. MaxRead : PollInnerRead(read_size)
    \/ WaitForResize
    \/ \E errno \in SelectErrnos : SelectFails(errno)

InitSpecPoll ==
    IdleTerm /\ IdleStyle /\ IdleFrame /\ IdleDraw /\ IdleWrite /\ IdleInput /\ InitPoll

SpecPoll == InitSpecPoll /\ [][NextPoll]_vars

\* The same Terminal with poll_event called without a timeout, for the
\* properties of its progress.
PollStep ==
    \/ \E timeout \in {None} : PollEvent(timeout)
    \/ PollFromBuf
    \/ SelectEnter
    \/ SelectReady
    \/ PollParse
    \/ \E read_size \in 1 .. MaxRead : PollInnerRead(read_size)
    \/ WaitForResize

NextPollLive ==
    \/ \E e \in PollInputs : Feed(e)
    \/ \E bytes \in PollJunk : FeedJunk(bytes)
    \/ Sigwinch
    \/ PollStep

\* poll_event keeps being called, and a call that can go on does.
SpecPollLive == InitSpecPoll /\ [][NextPollLive]_vars /\ WF_vars(PollStep)

---------------------------------------------------------------------------
(* Claims about the Terminal lifecycle *)

\* C1: at most one Terminal is alive at any time; Terminal::new called while a
\* Terminal is alive fails as a duplicate and builds nothing; and the
\* Terminal::new that follows a drop is not rejected as a duplicate.
C1_AtMostOneTerminal ==
    /\ [](/\ Cardinality(terminals) <= 1
          /\ (last.op = "new" /\ last.live =>
                 last.res = "AlreadyExists" /\ Cardinality(terminals) = 1))
    /\ [][(last.op = "drop" /\ last'.op = "new") => last'.res # "AlreadyExists"]_vars

\* C1, its case: a Terminal was dropped, another one was acquired after it, and
\* a further Terminal::new was rejected while that one is alive.
C1_Witness ==
    /\ dropped
    /\ last.op = "new" /\ last.res = "AlreadyExists" /\ last.live
    /\ Cardinality(terminals) = 1

\* C2: right after a Terminal is dropped the exists flag is clear and both ends
\* of its signal pipe are closed, whether or not a restoration step failed; and
\* when no restoration step failed the tty's attributes equal the snapshot taken
\* at acquisition, the alternate screen has been left and the cursor is shown.
C2_DropRestores ==
    last.op = "drop" =>
        /\ ~TERMINAL_EXISTS
        /\ fdtab[last.t.signal] = "closed"
        /\ fdtab[last.t.wfd] = "closed"
        /\ (~last.failed =>
               /\ termios = last.t.original_termios
               /\ ~altScreen
               /\ cursorVisible)

\* C2, its case: a Terminal whose raw mode changed the attributes was dropped
\* and every restoration step succeeded.
C2_Witness ==
    /\ last.op = "drop" /\ ~last.failed
    /\ RawOf(last.t.original_termios) # last.t.original_termios

---------------------------------------------------------------------------
(* Claims about TerminalStyle *)

\* The parameters of an SGR sequence: the text between "ESC [" and the final
\* "m", cut at every ';'.
RECURSIVE SplitParams(_)
SplitParams(s) ==
    LET i == FirstIndex(s, {";"})
    IN  IF i = 0 THEN <<s>> ELSE <<Take(s, i - 1)>> \o SplitParams(Skip(s, i))

\* The SGR numbers in canonical order, each with the attribute it stands for.
CanonicalOrder ==
    << <<"1", "bold">>, <<"2", "dim">>, <<"3", "italic">>, <<"4", "underline">>,
       <<"5", "blink">>, <<"7", "reverse">>, <<"9", "strikethrough">> >>

RECURSIVE CanonicalAttributes(_, _)
CanonicalAttributes(st, i) ==
    IF i > Len(CanonicalOrder) THEN <<>>
    ELSE (IF st[CanonicalOrder[i][2]] THEN << <<CanonicalOrder[i][1]>> >> ELSE <<>>)
         \o CanonicalAttributes(st, i + 1)

CanonicalColor(lead, c) ==
    IF c = NoColor THEN <<>>
    ELSE <<lead, <<"2">>, ToDecimal(c[1]), ToDecimal(c[2]), ToDecimal(c[3])>>

\* C6: parsing the serialization of a style succeeds and gives the style back;
\* the serialization is ESC [ then the parameters 0, the numbers of the set
\* attributes in the order 1,2,3,4,5,7,9, 38;2;R;G;B when a foreground colour is
\* set, 48;2;R;G;B when a background colour is set, separated by ';', then m.
C6_StyleRoundTrip ==
    /\ (stylePhase = "parsed" => styleParsed = [ok |-> TRUE, style |-> style])
    /\ (stylePhase # "build" =>
          /\ Len(styleText) >= 4
          /\ Take(styleText, 2) = <<"ESC", "[">>
          /\ styleText[Len(styleText)] = "m"
          /\ SplitParams(SubSeq(styleText, 3, Len(styleText) - 1)) =
                << <<"0">> >> \o CanonicalAttributes(style, 1)
                \o CanonicalColor(<<"3", "8">>, style.fg_color)
                \o CanonicalColor(<<"4", "8">>, style.bg_color))

\* C6, its case: a style with attributes and both colours went through Display
\* and FromStr.
C6_Witness ==
    /\ stylePhase = "parsed"
    /\ style.dim /\ style.italic /\ style.strikethrough
    /\ style.fg_color = <<38, 2, 48>> /\ style.bg_color = <<255, 100, 100>>

---------------------------------------------------------------------------
(* Claims about Terminal::draw *)

\* C3: after a draw of f that returned Ok, the tty shows at every position of f
\* the cell f enumerates there, value and style, whatever frame was drawn
\* before (stated for histories in which no draw failed).
C3_ScreenShowsFrame ==
    (dlast.op = "draw" /\ dlast.res = "Ok" /\ ~drawFailed) =>
        \A e \in Enumerated(last_frame) : \A i \in 0 .. e.c.width - 1 :
            screen.cells[row_col(e.pos.row, e.pos.col + i)]
                = Glyph(e.c.value, e.c.style, e.c.width, i)

\* Same size, same cells.
SameFrame(f, g) == f.size = g.size /\ f.data = g.data

\* C4, as stated: a draw (that returns Ok) of a frame equal to the last
\* successfully drawn frame writes hide-cursor and then only the move to the
\* desired cursor and show-cursor, when a cursor is set.
C4_RedrawOfLastOkWritesNothing ==
    [][(/\ dlast'.op = "draw" /\ dlast'.res = "Ok"
        /\ lastOk # None
        /\ SameFrame(last_frame', lastOk[1]))
       => dlast'.out = <<Hide>> \o DesiredCursor(cursor)]_vars

\* C4, amended: a draw (that returns Ok) of a frame equal to the Terminal's
\* last_frame writes hide-cursor and then only the move to the desired cursor
\* and show-cursor, when a cursor is set. last_frame is the last successfully
\* drawn frame until a draw of a frame of another size fails after line 414.
C4_RedrawOfLastFrameWritesNothing ==
    [][(/\ dlast'.op = "draw" /\ dlast'.res = "Ok"
        /\ SameFrame(last_frame', last_frame))
       => dlast'.out = <<Hide>> \o DesiredCursor(cursor)]_vars

\* A frame with cells was drawn again, with a cursor set, after some draw had
\* failed: nothing but hide, move and show was written.
C4_Witness ==
    /\ dlast.op = "draw" /\ dlast.res = "Ok"
    /\ drawFailed
    /\ cursor # None
    /\ DOMAIN last_frame.data # {}
    /\ dlast.out = <<Hide>> \o DesiredCursor(cursor)

\* C5: a draw writes the value of a cell only if the cell differs from the cell
\* of last_frame (after the reset for another size) at the same position.
C5_OnlyDifferingCellsWritten ==
    [][dlast'.op = "draw" =>
         \A i \in 1 .. Len(dlast'.out) :
            dlast'.out[i].k = "char" =>
               get_char(ResetLast(last_frame, last_frame'), dlast'.out[i].pos)
                  # Some(dlast'.out[i].c)]_vars

---------------------------------------------------------------------------
(* Claims about frames *)

Frames == {main, sub}

\* The positions a cell of width w at p extends over after its first one.
Shadow(p, w) == {PosAdd(p, row_col(0, i)) : i \in 1 .. w - 1}

\* C7: after any sequence of writes and compositions, every position at which
\* a frame stores a cell has row < size.rows and col < size.cols.
C7_CellsInsideSize ==
    \A f \in Frames : \A p \in DOMAIN f.data :
        p.row < f.size.rows /\ p.col < f.size.cols

\* A composition has just dropped a cell that fell right of main, after writes
\* that ran over the right edge of main and under its last row.
C7_Witness ==
    /\ flast.op = "draw"
    /\ flast.position = row_col(0, 2)
    /\ DOMAIN sub.data = {row_col(0, 0), row_col(0, 1)}
    /\ row_col(0, 2) \in DOMAIN main.data
    /\ main.tail.row >= main.size.rows
    /\ main.tail.col > 0

\* C8: after any sequence of writes and compositions, no cell is stored at a
\* position p + col(1) .. p + col(w - 1) of a stored cell at p of width w > 1.
C8_ShadowEmpty ==
    \A f \in Frames : \A p \in DOMAIN f.data :
        Shadow(p, f.data[p].width) \cap DOMAIN f.data = {}

\* C9: after main.draw(p, sub), for every position q where sub enumerates a
\* stored cell and p + q is inside main.size, main enumerates that cell (value,
\* width, style) at p + q.
C9_CompositionLaw ==
    flast.op = "draw" =>
        \A e \in Enumerated(sub) :
            (/\ e.pos \in DOMAIN sub.data
             /\ contains(main.size, PosAdd(flast.position, e.pos)))
            => [pos |-> PosAdd(flast.position, e.pos), c |-> e.c] \in Enumerated(main)

\* The positions main.draw(p, sub) copies a cell to.
CopiedPositions(f, p, src) ==
    {PosAdd(p, e.pos) : e \in {x \in Enumerated(src) : contains(f.size, PosAdd(p, x.pos))}}

\* q is inside the rectangle p .. p + size.
InRectangle(p, size, q) ==
    /\ p.row <= q.row /\ q.row < p.row + size.rows
    /\ p.col <= q.col /\ q.col < p.col + size.cols

\* C10: main.draw(p, sub) leaves cursor_tail, current_style, the pending escape
\* sequence and the size of main unchanged, leaves sub unchanged, and outside
\* the rectangle p .. p + sub.size changes no cell of main, other than removing
\* a wide cell whose extent reaches over a copied position.
C10_CompositionFrameEffect ==
    [][flast'.op = "draw" =>
        /\ main'.tail = main.tail
        /\ main'.current_style = main.current_style
        /\ main'.escape_sequence = main.escape_sequence
        /\ main'.size = main.size
        /\ sub' = sub
        /\ \A q \in (DOMAIN main.data \cup DOMAIN main'.data) :
              ~InRectangle(flast'.position, sub.size, q) =>
                 \/ /\ q \in DOMAIN main.data
                    /\ q \in DOMAIN main'.data
                    /\ main'.data[q] = main.data[q]
                 \/ /\ q \in DOMAIN main.data
                    /\ q \notin DOMAIN main'.data
                    /\ main.data[q].width > 1
                    /\ Shadow(q, main.data[q].width)
                          \cap CopiedPositions(main, flast'.position, sub) # {}
      ]_vars

---------------------------------------------------------------------------
(* Claims about write_str *)

\* The number of newline characters in s.
NewlineCount(s) == Cardinality({i \in 1 .. Len(s) : s[i] = "LF"})

EndsWithNewline(s) == s # <<>> /\ s[Len(s)] = "LF"

\* Every ESC of s begins a whole sequence that Display for TerminalStyle wrote.
RECURSIVE EscapesComplete(_)
EscapesComplete(s) ==
    \/ s = <<>>
    \/ s[1] # "ESC" /\ EscapesComplete(Tail(s))
    \/ \E st \in WriteStyles :
          /\ StartsWith(s, StyleDisplay(st))
          /\ EscapesComplete(Skip(s, Len(StyleDisplay(st))))

\* C11, as stated: after every write_str call that returns, from every frame
\* state and for every string, a string that ends with a newline leaves
\* cursor_tail.col = 0 and cursor_tail.row greater by the number of its
\* newlines, and a string without a newline leaves cursor_tail.row unchanged.
C11_NewlineMovesTail ==
    [][wlast'.ok =>
         /\ EndsWithNewline(wlast'.s) =>
               /\ wframe'.tail.col = 0
               /\ wframe'.tail.row = wframe.tail.row + NewlineCount(wlast'.s)
         /\ NewlineCount(wlast'.s) = 0 => wframe'.tail.row = wframe.tail.row]_vars

\* C11, amended: the first half holds when no newline of the string falls
\* inside an escape sequence, that is when no sequence is pending before the
\* call and every ESC of the string begins a whole style sequence; the second
\* half holds for every frame state and string.
C11_NewlineOutsideEscapeMovesTail ==
    [][wlast'.ok =>
         /\ (/\ EndsWithNewline(wlast'.s)
             /\ wframe.escape_sequence = <<>>
             /\ EscapesComplete(wlast'.s)) =>
               /\ wframe'.tail.col = 0
               /\ wframe'.tail.row = wframe.tail.row + NewlineCount(wlast'.s)
         /\ NewlineCount(wlast'.s) = 0 => wframe'.tail.row = wframe.tail.row]_vars

\* Two newlines written from the middle of a row: the tail is two rows down,
\* in column 0.
C11_Witness ==
    /\ wlast.ok
    /\ wlast.s = <<"LF", "LF">>
    /\ wlast.escape_sequence = <<>>
    /\ wlast.tail.col > 0
    /\ wframe.tail = row_col(wlast.tail.row + 2, 0)

\* The step is one write_str call whose string is the single character c.
WritesChar(c) == wlast'.s = <<c>> /\ wlast'.ok

\* Between the frame before the step and the frame after it, exactly the cell
\* `cell` was stored at `pos`: every other cell is as it was.
StoredOnly(pos, cell) ==
    /\ DOMAIN wframe'.data = DOMAIN wframe.data \cup {pos}
    /\ wframe'.data[pos] = cell
    /\ \A p \in DOMAIN wframe.data \ {pos} : wframe'.data[p] = wframe.data[p]

\* C12: a write of one character of estimated width w > 0 with no sequence
\* pending stores exactly the cell {current_style, w, value} at cursor_tail
\* when cursor_tail.row < rows and cursor_tail.col + w <= cols and stores
\* nothing otherwise; either way cursor_tail.col grows by w and the row stays;
\* with cursor_tail at or past the right edge nothing is stored.
C12_CharStoredIffFits ==
    [][\A c \in PlainChars :
         LET w == estimate_char_width(wframe.char_width_estimator, c)
         IN  (WritesChar(c) /\ wframe.escape_sequence = <<>> /\ w > 0) =>
                /\ IF /\ wframe.tail.row < wframe.size.rows
                      /\ wframe.tail.col + w <= wframe.size.cols
                   THEN StoredOnly(wframe.tail,
                                   [style |-> wframe.current_style, width |-> w,
                                    value |-> c])
                   ELSE wframe'.data = wframe.data
                /\ wframe'.tail = row_col(wframe.tail.row, wframe.tail.col + w)
                /\ wframe.tail.col >= wframe.size.cols =>
                      wframe'.data = wframe.data]_vars

\* A wide character was written in bold at (0,0) of a two-column frame and
\* stored; then a letter was written at (0,2) and dropped, the tail moving on.
C12_Witness ==
    /\ wframe.char_width_estimator = "Unicode"
    /\ wlast.ok /\ wlast.s = <<"a">> /\ wlast.escape_sequence = <<>>
    /\ wlast.tail = row_col(0, 2)
    /\ wframe.tail = row_col(0, 3)
    /\ DOMAIN wframe.data = {ZERO}
    /\ wframe.data[ZERO] = [style |-> Bold, width |-> 2, value |-> "W2"]

\* The characters of estimated width 0: with both estimators of the model,
\* the control characters.
ZeroWidthChars(f) ==
    {c \in PlainChars \cup {"ESC"} : estimate_char_width(f.char_width_estimator, c) = 0}

\* C13, as stated: a write of one character of estimated width 0 leaves
\* cursor_tail as it was and stores, removes and replaces no cell.
C13_ZeroWidthChangesNothing ==
    [][\A c \in ZeroWidthChars(wframe) :
         WritesChar(c) => wframe'.tail = wframe.tail /\ wframe'.data = wframe.data]_vars

\* C13, amended: the same for every character of estimated width 0 other than
\* the newline, which write_str handles before it asks the estimator.
C13_ZeroWidthButNewlineChangesNothing ==
    [][\A c \in ZeroWidthChars(wframe) \ {"LF"} :
         WritesChar(c) => wframe'.tail = wframe.tail /\ wframe'.data = wframe.data]_vars

\* A control character was written after a letter, with no sequence pending:
\* the tail is where the letter left it and the letter is the only cell.
C13_Witness ==
    /\ wlast.ok /\ wlast.s = <<"BEL">> /\ wlast.escape_sequence = <<>>
    /\ wlast.tail = row_col(0, 1)
    /\ wframe.tail = row_col(0, 1)
    /\ DOMAIN wframe.data = {ZERO}
    /\ wframe.data[ZERO].value = "a"

\* The positions whose cell the step stored or replaced.
ChangedCells ==
    {p \in DOMAIN wframe'.data : p \notin DOMAIN wframe.data
                                   \/ wframe'.data[p] # wframe.data[p]}

HasEscape(s) == \E i \in 1 .. Len(s) : s[i] = "ESC"

\* A write of the serialization of st sets current_style to st, stores no
\* cell and leaves cursor_tail where it was.
StyleWritten(st) ==
    /\ wlast'.ok
    /\ wframe'.current_style = st
    /\ wframe'.data = wframe.data
    /\ wframe'.tail = wframe.tail

\* Cells are stored with the style in force: a write without ESC, made with
\* no sequence pending, keeps current_style and stores its cells with it; a
\* write of a serialization followed by a character stores with the new style.
CellsCarryStyle ==
    /\ (wframe.escape_sequence = <<>> /\ ~HasEscape(wlast'.s)) =>
          /\ wframe'.current_style = wframe.current_style
          /\ \A p \in ChangedCells : wframe'.data[p].style = wframe.current_style
    /\ \A st \in WriteStyles, c \in PlainChars :
          (wframe.escape_sequence = <<>> /\ wlast'.s = StyleDisplay(st) \o <<c>>) =>
             /\ wframe'.current_style = st
             /\ \A p \in ChangedCells : wframe'.data[p].style = st

\* C14: writing the serialization of a style st into a frame that has no
\* escape sequence pending (one is pending only inside Display::fmt, or after
\* the caller wrote an ESC that no TerminalStyle produced) sets current_style
\* to st, whatever the style in force was, stores no cell and leaves
\* cursor_tail; cells stored afterwards carry exactly the style in force.
C14_StyleSequenceSetsStyle ==
    [][/\ \A st \in WriteStyles :
             (wlast'.s = StyleDisplay(st) /\ wframe.escape_sequence = <<>>) =>
                StyleWritten(st)
       /\ CellsCarryStyle]_vars

\* The italic style was written into a frame that holds a bold cell, with no
\* sequence pending: the style in force is italic alone, the tail has not
\* moved.
C14_Witness ==
    /\ wlast.ok /\ wlast.s = StyleDisplay(Italic) /\ wlast.escape_sequence = <<>>
    /\ wframe.current_style = Italic
    /\ wframe.tail = wlast.tail
    /\ DOMAIN wframe.data = {ZERO}
    /\ wframe.data[ZERO].style = Bold

---------------------------------------------------------------------------
(* Claims about parse_input and the InputReader *)

\* C15: whenever parse_input returns, consumed is at most the length of the
\* bytes it was given, and for no bytes at all it returns (None, 0).
C15_ConsumedWithinBytes ==
    ilast.op = "parse" =>
       /\ ilast.r.kind = "Ok" => ilast.r.consumed <= Len(ilast.bytes)
       /\ ilast.bytes = <<>> => ilast.r = ParseOk(None, 0)

\* parse_input was given exactly the nine bytes of a mouse event and consumed
\* them all.
C15_Witness ==
    /\ ilast.op = "parse"
    /\ ilast.bytes = <<b_ESC, b_LBRACKET, b_LT, b_0, b_SEMI, b_1, b_SEMI, b_1, b_M>>
    /\ ilast.r.input # None
    /\ ilast.r.consumed = 9

\* C16: parse_input never fails: every call returns Ok, and an event only
\* together with consumed > 0; bytes that are no event are consumed, never
\* answered with an error that leaves them in the buffer.
C16_ParseNeverFails ==
    ilast.op = "parse" =>
       /\ ilast.r.kind = "Ok"
       /\ ilast.r.input # None => ilast.r.consumed > 0

InLoop == rpc \in {"buf1", "buf2"}

\* C17: every turn of the loop of read_input_from_buf either takes at least
\* one byte off the buffer or leaves the loop, and the loop is always left.
C17_ReadLoopTerminates ==
    /\ [][(InLoop /\ ilast'.op = "parse") => (Len(buf') < Len(buf) \/ ~InLoop')]_vars
    /\ (InLoop ~> ~InLoop)

\* The loop has discarded bytes and goes on with what is left.
C17_Witness ==
    /\ InLoop
    /\ ilast.op = "parse"
    /\ ilast.r.input = None /\ ilast.r.consumed > 0
    /\ buf # <<>>

IsPrefix(s, q) == Len(s) <= Len(q) /\ SubSeq(q, 1, Len(s)) = s

\* C18: when only the bytes of events went into the source, the events that
\* read_input has returned are the first of those events, in order, and once
\* read_input reports the end of the source they are all of them.
C18_ReaderYieldsFedEvents ==
    ~junk =>
       /\ IsPrefix(yielded, fed)
       /\ (ilast.op = "eof" /\ source = <<>>) => yielded = fed

---------------------------------------------------------------------------
(* Claims about poll_event *)

\* C19: over any interleaving of bytes arriving on stdin and SIGWINCH
\* deliveries, with poll_event called again and again, the events returned
\* are the events of the stream, once each and in order, each of them is
\* returned at some time, no Resize is returned without a delivery, and every
\* delivery is answered by a Resize of its own at some time.
C19_EveryEventExactlyOnce ==
    /\ [](IsPrefix(yielded, fed) /\ resizes + sigpipe = sigwinches)
    /\ \A n \in 1 .. MaxEvents : (Len(fed) >= n) ~> (Len(yielded) >= n)
    /\ \A k \in 1 .. MaxSignals : (sigwinches >= k) ~> (resizes >= k)

\* The later of two times.
Max(a, b) == IF a >= b THEN a ELSE b

\* What a step of poll_event does with a failure of select, and what is in
\* the pipe when the call ends with a timeout.
SelectFailureHandled ==
    /\ (ppc = "blocked" /\ sigwinches' > sigwinches)
          => (ppc' = "select" /\ sigpipe' > 0 /\ plast'.eintr = plast.eintr + 1)
    /\ (ppc = "blocked" /\ selfails' > selfails /\ plast'.errno = "EINTR")
          => ppc' = "select"
    /\ (ppc = "blocked" /\ selfails' > selfails /\ plast'.errno # "EINTR")
          => (ppc' = "idle" /\ plast'.res = "Err" /\ plast'.errno \in SelectErrnos)
    /\ (ppc # "idle" /\ ppc' = "idle" /\ plast'.res = "None")
          => sigpipe' = 0

\* C20: a select that fails with EINTR does not end poll_event with an error:
\* the loop goes round and select waits again, for what is left of the timeout
\* since the call began; the byte of the SIGWINCH that interrupted it is in
\* the pipe by then, so the call does not end with a timeout while that
\* Resize is due. Any other failure of select is returned as the error.
C20_EintrRestartsSelect ==
    /\ [](~(plast.op = "return" /\ plast.errno = "EINTR"))
    /\ []((ppc = "blocked" /\ ptimeout # None)
            => (tv # None /\ entered + tv[1] = Max(entered, ptimeout[1])))
    /\ [][SelectFailureHandled]_vars

\* poll_event was called with a timeout, select was interrupted and entered
\* again after time had passed, and the call returned a Resize.
C20_Witness ==
    /\ plast.op = "return"
    /\ plast.res = "Resize"
    /\ plast.eintr > 0
    /\ ptimeout # None
    /\ entered > 0

---------------------------------------------------------------------------
(* Claims about the sequence a draw writes *)

\* The places of `op` in what a draw wrote.
Places(out, op) == {i \in 1 .. Len(out) : out[i] = op}

\* The places of the cell values in what a draw wrote.
CellPlaces(out) == {i \in 1 .. Len(out) : out[i].k = "char"}

\* C21: set_cursor writes nothing and changes nothing the tty shows; a draw
\* leaves the desired cursor as it is; whatever a draw writes begins with
\* hide-cursor, written once; a draw that returns Ok with the desired cursor
\* Some(p) ends with the move to p and then show-cursor, written once and after
\* every cell, and leaves the tty's cursor shown at p; with the desired cursor
\* None it writes no show-cursor and leaves the tty's cursor hidden.
C21_CursorAppliedAtDraw ==
    [][/\ dlast'.op = "set_cursor" =>
            (screen' = screen /\ cursorVisible' = cursorVisible /\ dlast'.out = dlast.out)
       /\ dlast'.op = "draw" =>
            /\ cursor' = cursor
            /\ dlast'.out # <<>> => Places(dlast'.out, Hide) = {1}
            /\ dlast'.res = "Ok" =>
                  \E out \in {dlast'.out} :
                     IF cursor # None
                     THEN /\ Len(out) >= 3
                          /\ out[Len(out) - 1] = Move(cursor[1])
                          /\ Places(out, Show) = {Len(out)}
                          /\ \A i \in CellPlaces(out) : i < Len(out) - 1
                          /\ cursorVisible'
                          /\ screen'.cur = cursor[1]
                     ELSE /\ Places(out, Show) = {}
                          /\ ~cursorVisible'
      ]_vars

\* A draw wrote cells and then put the cursor where an earlier set_cursor had
\* asked for it, the tty having shown no cursor before.
C21_Witness ==
    /\ dlast.op = "draw" /\ dlast.res = "Ok"
    /\ cursor # None
    /\ CellPlaces(dlast.out) # {}
    /\ cursorVisible
    /\ screen.cur = cursor[1]

\* C29: a draw that returns Ok of a frame whose size is not last_frame's
\* writes clear-screen once, right after hide-cursor and before every cell,
\* and then what the diff of the frame against the blank frame of its size
\* gives, every cell of the frame that is not blank among it; a draw of a frame
\* of last_frame's size writes no clear-screen.
C29_ClearOnSizeChange ==
    [][(dlast'.op = "draw" /\ dlast'.res = "Ok") =>
          \E out \in {dlast'.out}, frame \in {last_frame'} :
             IF last_frame.size # frame.size
             THEN /\ Places(out, Clear) = {2}
                  /\ out = <<Hide, Clear>>
                           \o DrawLoop(chars(frame),
                                       chars(with_char_width_estimator(frame.size, "Fixed")),
                                       1, FALSE, None, NoRow)
                           \o DesiredCursor(cursor)
                  /\ \A e \in Enumerated(frame) :
                        e.c # BLANK => Places(out, PutCell(e.pos, e.c)) # {}
             ELSE Places(out, Clear) = {}
      ]_vars

\* A frame of two rows with a wide cell was drawn on a Terminal whose
\* last_frame had another size: the screen was cleared and cells were written.
C29_Witness ==
    /\ dlast.op = "draw" /\ dlast.res = "Ok"
    /\ Places(dlast.out, Clear) = {2}
    /\ CellPlaces(dlast.out) # {}
    /\ last_frame.size = rows_cols(2, 2)
    /\ \E p \in DOMAIN last_frame.data : last_frame.data[p].width = 2

---------------------------------------------------------------------------
(* Claims about the enumeration of cells *)

\* The columns of row r that the i-th entry of cs extends over.
ExtentCols(cs, i, r) ==
    IF cs[i].pos.row # r THEN {}
    ELSE {cs[i].pos.col + k : k \in 0 .. cs[i].c.width - 1}

\* The entries of f.chars() are in strictly increasing row-major order and
\* inside f.size.
ChronologicalInside(f, cs) ==
    /\ \A i, j \in 1 .. Len(cs) : i < j => PosLess(cs[i].pos, cs[j].pos)
    /\ \A i \in 1 .. Len(cs) : contains(f.size, cs[i].pos)

\* Every stored cell is one entry, at its position; every other entry is a
\* blank, and no entry is at a position after the first of a wider entry.
StoredOnceElseBlank(f, cs) ==
    /\ \A p \in DOMAIN f.data :
          Cardinality({i \in 1 .. Len(cs) : cs[i].pos = p}) = 1
          /\ \A i \in 1 .. Len(cs) : cs[i].pos = p => cs[i].c = f.data[p]
    /\ \A i \in 1 .. Len(cs) : cs[i].pos \notin DOMAIN f.data => cs[i].c = BLANK
    /\ \A i, j \in 1 .. Len(cs) :
          cs[j].pos \notin Shadow(cs[i].pos, cs[i].c.width)

\* The extents of the entries of a row cover the columns of the row, each
\* column once, and no other column.
TilesRows(f, cs) ==
    \A r \in 0 .. f.size.rows - 1 :
       /\ \A col \in 0 .. f.size.cols - 1 :
             Cardinality({i \in 1 .. Len(cs) : col \in ExtentCols(cs, i, r)}) = 1
       /\ \A i \in 1 .. Len(cs) : ExtentCols(cs, i, r) \subseteq 0 .. f.size.cols - 1

\* C30: chars() yields positions in strictly increasing row-major order, all
\* inside size; every stored cell is yielded once, at its position and with its
\* width; the positions after the first of a wide cell are not yielded; every
\* other entry is a blank of width 1; the extents of the entries of a row cover
\* the row, no column twice and none outside it.
C30_CharsTileTheFrame ==
    \A f \in Frames : \E cs \in {chars(f)} :
        /\ ChronologicalInside(f, cs)
        /\ StoredOnceElseBlank(f, cs)
        /\ TilesRows(f, cs)

---------------------------------------------------------------------------
(* Claims about parse_input on keys and mouse reports *)

\* parse_input was applied to these bytes as the first bytes of a buffer.
Parsed(bytes) == ilast.op = "parse_input" /\ ilast.bytes = bytes

\* The alt and ctrl a modifier byte m encodes: m = '1' + shift + 2 alt + 4 ctrl.
EncodedAlt(m) == BitSet(m - b_1, 1)
EncodedCtrl(m) == BitSet(m - b_1, 2)

\* An unmodified or modified key, with the number of bytes consumed.
KeyResult(ctrl, alt, code, consumed) ==
    ParseOk(Some(create_key_input(ctrl, alt, KeyCode(code))), consumed)

\* C22: parse_input of ESC [ 1 ; m X (X in A..D) and of ESC [ N ; m ~ returns
\* the arrow or special key with alt and ctrl equal to the alt and ctrl the
\* byte m = '1' + shift + 2 alt + 4 ctrl encodes, for each of the eight
\* values of m, and consumes 6 bytes.
C22_ModifiedKeyFlags ==
    \A m \in b_1 .. b_8 :
        /\ \A final \in b_A .. b_D :
              Parsed(ModifiedArrowBytes(m, final))
                  => ilast.r = KeyResult(EncodedCtrl(m), EncodedAlt(m), ArrowCode(final), 6)
        /\ \A n \in b_1 .. b_8 :
              Parsed(ModifiedSpecialBytes(n, m))
                  => ilast.r = KeyResult(EncodedCtrl(m), EncodedAlt(m), SpecialCode(n), 6)

\* The button the low two bits of an SGR button number select, "" for 3.
SelectedButton(button) ==
    IF button % 4 = 0 THEN "Left" ELSE IF button % 4 = 1 THEN "Middle"
    ELSE IF button % 4 = 2 THEN "Right" ELSE ""

PressOf(name) ==
    IF name = "Left" THEN "LeftPress" ELSE IF name = "Middle" THEN "MiddlePress"
    ELSE "RightPress"

ReleaseOf(name) ==
    IF name = "Left" THEN "LeftRelease" ELSE IF name = "Middle" THEN "MiddleRelease"
    ELSE "RightRelease"

\* The event an SGR report stands for, when the values 64 and 65 mean a scroll
\* under the terminators in scrolls: "" where the low two bits select no button.
SgrMeaning(button, terminator, scrolls) ==
    IF BitSet(button, 5) THEN "Drag"
    ELSE IF button = 64 /\ terminator \in scrolls THEN "ScrollUp"
    ELSE IF button = 65 /\ terminator \in scrolls THEN "ScrollDown"
    ELSE IF SelectedButton(button) = "" THEN ""
    ELSE IF terminator = b_m THEN ReleaseOf(SelectedButton(button))
    ELSE PressOf(SelectedButton(button))

\* parse_input decodes every SGR report of the menu to its meaning, with the
\* flags of bits 0x04, 0x08, 0x10, the position (max(y-1,0), max(x-1,0)) and
\* the whole report consumed; where the low two bits select no button the
\* report is consumed and gives no event.
SgrDecodes(scrolls) ==
    \A button \in 0 .. MaxButton : \A x \in SgrCoords : \A y \in SgrCoords :
    \A terminator \in {b_M, b_m} :
        Parsed(SgrBytes(button, x, y, terminator)) =>
            /\ ilast.r.kind = "Ok"
            /\ ilast.r.consumed = Len(ilast.bytes)
            /\ SgrMeaning(button, terminator, scrolls) = "" => ilast.r.input = None
            /\ SgrMeaning(button, terminator, scrolls) # "" =>
                  ilast.r.input =
                      Some(MouseInput(SgrMeaning(button, terminator, scrolls),
                                      row_col(Max(y - 1, 0), Max(x - 1, 0)),
                                      BitSet(button, 4), BitSet(button, 3),
                                      BitSet(button, 2)))

\* C23 (as stated): for ESC [ < button ; x ; y followed by M or m, the
\* shift/alt/ctrl flags are bits 0x04/0x08/0x10 of button, the values 64 and
\* 65 yield ScrollUp and ScrollDown, bit 0x20 yields Drag, otherwise the low
\* two bits select the button, released under m and pressed under M; the
\* position is (max(y-1,0), max(x-1,0)) and the whole report is consumed.
C23_SgrScrollUnderAnyTerminator == SgrDecodes({b_M, b_m})

\* C23 (amended): the same, with the values 64 and 65 yielding ScrollUp and
\* ScrollDown under the terminator M only; under m they are the releases the
\* low two bits select (Left for 64, Middle for 65).
C23_SgrDecoding == SgrDecodes({b_M})

\* A report of the value 64 under m was parsed and gave a release of the left
\* button at the saturated position.
C23_Witness ==
    /\ Parsed(SgrBytes(64, 0, 3, b_m))
    /\ ilast.r = ParseOk(Some(MouseInput("LeftRelease", row_col(2, 0), FALSE, FALSE, FALSE)),
                         Len(ilast.bytes))

\* What parse_input gives for the SGR press report of a button number, at the
\* first column of the first row.
SgrPress(button) == parse_input(SgrBytes(button, 1, 1, b_M), overflow_checks).input

\* C24: for every button byte b, parse_input of ESC [ M b x y consumes 6 bytes
\* and gives the event kind and the shift/alt/ctrl flags that the SGR press
\* report with button = b - 0x20 gives, at the position
\* (max(y-33,0), max(x-33,0)).
C24_X10AgreesWithSgr ==
    \A b \in 32 .. 255 : \A x \in X10Coords : \A y \in X10Coords :
        (Parsed(X10Bytes(b, x, y)) /\ SgrPress(b - 32) # None) =>
            \E sgr \in {SgrPress(b - 32)[1]} :
                ilast.r = ParseOk(Some(MouseInput(sgr.event,
                                                  row_col(Max(y - 33, 0), Max(x - 33, 0)),
                                                  sgr.ctrl, sgr.alt, sgr.shift)), 6)

\* C25: for every N in 1..8, parse_input of ESC [ N ~ returns the unmodified
\* key Home (N = 1 or 7), Insert (2), Delete (3), End (N = 4 or 8), PageUp (5)
\* or PageDown (6) and consumes 4 bytes.
C25_SpecialKeys ==
    \A n \in b_1 .. b_8 :
        Parsed(SpecialBytes(n)) => ilast.r = KeyResult(FALSE, FALSE, SpecialCode(n), 4)

\* The second bytes of the claims about ESC: every byte but '[' and 'O'.
AfterEsc == Bytes \ {b_LBRACKET, b_O}

\* Is b a printable ASCII byte.
Printable(b) == 32 <= b /\ b < b_DEL

\* The key parse_input gives for the single byte b.
SingleByteKey(b) == parse_input(<<b>>, overflow_checks).input[1]

\* C26 (as stated): ESC followed by a byte b other than '[' and 'O' is an
\* Alt-modified key consuming 2 bytes: Alt+Char(b) for a printable b, and for
\* b < 0x20 the key the single-byte control mapping gives for b, with alt set.
C26_AltOfEveryByte ==
    \A b \in AfterEsc :
        Parsed(<<b_ESC, b>>) =>
            /\ ilast.r.kind = "Ok" /\ ilast.r.consumed = 2
            /\ ilast.r.input # None /\ ilast.r.input[1].t = "Key" /\ ilast.r.input[1].alt
            /\ Printable(b) => ilast.r.input[1] = create_key_input(FALSE, TRUE, KeyChar(b))
            /\ b < 32 => ilast.r.input[1] = [SingleByteKey(b) EXCEPT !.alt = TRUE]

\* C26 (amended): ESC followed by a byte b below 0x80 other than '[', 'O' and
\* ESC is an Alt-modified key consuming 2 bytes: Alt+Char(b) for b >= 0x20,
\* Alt+Backspace for 0x08, and for every other b < 0x20 the key the
\* single-byte control mapping gives for b, with alt set.
C26_AltChar ==
    \A b \in AfterEsc \ ({b_ESC} \cup 128 .. 255) :
        Parsed(<<b_ESC, b>>) =>
            /\ ilast.r.kind = "Ok" /\ ilast.r.consumed = 2
            /\ ilast.r.input # None
            /\ b >= 32 => ilast.r.input[1] = create_key_input(FALSE, TRUE, KeyChar(b))
            /\ b = 8 => ilast.r.input[1] = create_key_input(FALSE, TRUE, KeyCode("Backspace"))
            /\ (b < 32 /\ b # 8) => ilast.r.input[1] = [SingleByteKey(b) EXCEPT !.alt = TRUE]

\* ESC and the byte 0x08 were parsed and gave Alt+Backspace.
C26_Witness ==
    /\ Parsed(<<b_ESC, 8>>)
    /\ ilast.r = ParseOk(Some(create_key_input(FALSE, TRUE, KeyCode("Backspace"))), 2)

\* The second bytes after which parse_input reports the key Escape.
EscapeSeconds == {b_ESC} \cup 128 .. 255

\* A step after which a lone ESC has given (None, 0) and ESC followed by a byte
\* of seconds has given the key Escape with no modifier and 1 byte consumed,
\* and in which the parse that follows such an Escape is of the second byte.
EscapePolicy(seconds) ==
    /\ (Parsed(<<b_ESC>>) => ilast.r = ParseOk(None, 0))'
    /\ \A b \in seconds :
          (Parsed(<<b_ESC, b>>) => ilast.r = KeyResult(FALSE, FALSE, "Escape", 1))'
    /\ \A b \in seconds :
          (Parsed(<<b_ESC, b>>) /\ ilast'.op = "rest")
              => (ilast'.bytes = <<b>>
                  /\ ilast'.r = parse_input(<<b>>, overflow_checks))

---------------------------------------------------------------------------
(* Claims about what the style parser rejects *)

\* The text without the signs and the leading zeros of its numbers; start
\* tells that no digit of the number at hand has been kept yet.
RECURSIVE Unpadded(_, _)
Unpadded(s, start) ==
    IF s = <<>> THEN <<>>
    ELSE IF start /\ s[1] \in {"+", "0"} /\ Len(s) >= 2 /\ IsDigit(s[2])
    THEN Unpadded(Tail(s), TRUE)
    ELSE <<s[1]>> \o Unpadded(Tail(s), ~IsDigit(s[1]))

\* C28 (as stated): the parser accepts only the writer's forms: a text that
\* it accepts is the text the writer produces for the style returned, so a
\* text without the ESC[0 prefix, with an unsupported number, with the
\* attributes out of order or repeated, or not ending in m after the last
\* parameter is an error; and an error carries no style.
C28_OnlyWrittenFormsAccepted ==
    stylePhase = "parsed" =>
        /\ styleParsed.ok => styleText = StyleDisplay(styleParsed.style)
        /\ ~styleParsed.ok => styleParsed = StyleErr

\* C28 (amended): a text the parser accepts is, up to a '+' sign and leading
\* zeros in the colour components, the text the writer produces for the style
\* returned; so a text without the ESC[0 prefix, with an unsupported number,
\* with the attributes out of order or repeated, or not ending in m after the
\* last parameter is an error; and an error carries no style.
C28_NonCanonicalRejected ==
    stylePhase = "parsed" =>
        /\ styleParsed.ok => Unpadded(styleText, TRUE) = StyleDisplay(styleParsed.style)
        /\ ~styleParsed.ok => styleParsed = StyleErr

\* A text with the attributes out of order (italic before bold) was parsed and
\* rejected, the error carrying no style.
C28_Witness ==
    /\ stylePhase = "parsed"
    /\ styleText = <<"ESC", "[", "0", ";", "3", ";", "1", "m">>
    /\ styleParsed = StyleErr

\* A text with a signed colour component, which the writer never produces, was
\* parsed and accepted.
C28_SignedComponentAccepted ==
    /\ stylePhase = "parsed"
    /\ styleText = <<"ESC", "[", "0", ";", "1">> \o FgPrefix \o <<"+">>
                       \o ColorParams(<<0, 255, 0>>) \o <<"m">>
    /\ styleParsed = [ok |-> TRUE,
                      style |-> [SetAttribute(RESET, "bold") EXCEPT !.fg_color = <<0, 255, 0>>]]

---------------------------------------------------------------------------
(* Claims about the blanks of the enumeration and the pending sequence *)

\* The places before i at which the enumeration cs of f yields a stored cell.
RealBefore(f, cs, i) == {j \in 1 .. i - 1 : cs[j].pos \in DOMAIN f.data}

\* The style the blank at place i of cs is to have: current_style at and after
\* cursor_tail, else the style of the last stored cell yielded before it, the
\* default style when there is none.
InheritedStyle(f, cs, i) ==
    IF ~PosLess(cs[i].pos, f.tail) THEN f.current_style
    ELSE IF RealBefore(f, cs, i) = {} THEN RESET
    ELSE cs[CHOOSE j \in RealBefore(f, cs, i) : \A k \in RealBefore(f, cs, i) : k <= j].c.style

\* C31: at a position where no cell starts and which is in no shadow, chars()
\* yields a blank whose style is the style of the last real cell seen before
\* it, or the frame's current_style when the position is at or after
\* cursor_tail.
C31_BlankInheritsStyle ==
    \E cs \in {chars(wframe)} :
        \A i \in 1 .. Len(cs) :
            cs[i].pos \notin DOMAIN wframe.data
                => cs[i].c = [style |-> InheritedStyle(wframe, cs, i), width |-> 1,
                              value |-> " "]

\* The ASCII letters among the characters written.
Letters == {"a", "b", "m"}

\* Is the writer between an ESC and its terminating letter after the text s,
\* when it was (pending) or was not between them before it.
RECURSIVE MidSequence(_, _)
MidSequence(s, pending) ==
    IF s = <<>> THEN pending
    ELSE IF pending THEN MidSequence(Tail(s), Head(s) \notin Letters)
    ELSE MidSequence(Tail(s), Head(s) = "ESC")

\* A write_str call that returns: the pending buffer is non-empty afterwards
\* exactly when the text ends between an ESC and a terminating letter, it then
\* starts with the ESC and holds no letter, and a text without a letter
\* written while the buffer is non-empty goes into the buffer whole, the cells
\* and cursor_tail staying as they are.
PendingAbsorbs ==
    wlast'.ok =>
        /\ (wframe'.escape_sequence # <<>>)
              <=> MidSequence(wlast'.s, wframe.escape_sequence # <<>>)
        /\ wframe'.escape_sequence # <<>> =>
              /\ wframe'.escape_sequence[1] = "ESC"
              /\ \A i \in 1 .. Len(wframe'.escape_sequence) :
                    wframe'.escape_sequence[i] \notin Letters
        /\ (wframe.escape_sequence # <<>>
              /\ \A i \in 1 .. Len(wlast'.s) : wlast'.s[i] \notin Letters) =>
              /\ wframe'.escape_sequence = wframe.escape_sequence \o wlast'.s
              /\ wframe'.data = wframe.data
              /\ wframe'.tail = wframe.tail

\* C32: the pending escape buffer is non-empty exactly when the writer has
\* consumed an ESC and not yet a terminating ASCII letter; it is empty after
\* every write that does not end mid-sequence; while it is non-empty every
\* incoming character, the newline and printable characters included, goes
\* into it, and no cell is inserted and cursor_tail does not move.
C32_PendingEscape == [][PendingAbsorbs]_vars

\* A wide printable character was written while an ESC was pending, to a frame
\* with room for it: it is in the buffer, no cell is stored and cursor_tail is
\* where it was.
C32_Witness ==
    /\ wlast.ok
    /\ wlast.escape_sequence = <<"ESC">>
    /\ wlast.s = <<"W2">>
    /\ wframe.char_width_estimator = "Unicode"
    /\ wframe.escape_sequence = <<"ESC", "W2">>
    /\ wframe.data = NoData
    /\ wframe.tail = ZERO

---------------------------------------------------------------------------
(* Claims about the reader's buffer and the splitting of its stream *)

\* C33: read_input reports UnexpectedEof only when the byte source returned
\* zero bytes because it is at its end: whatever the stream and however full
\* the buffer, the buffer has room for the next read, so no read is issued
\* with zero capacity and taken for the end of the stream.
C33_EofOnlyAtEndOfStream ==
    /\ rpc = "read" => Len(buf) < BufSize
    /\ ilast.op = "eof" => (source = <<>> /\ closed)

\* The events of a stream whose bytes are all in the buffer at once: the loop
\* of read_input_from_buf, call after call, until the bytes left give no
\* event.
RECURSIVE EventsOf(_)
EventsOf(bytes) ==
    Only({IF r.kind # "Ok" \/ r.consumed = 0 THEN <<>>
          ELSE (IF r.input = None THEN <<>> ELSE <<r.input[1]>>)
                   \o EventsOf(Skip(bytes, r.consumed)) :
             r \in {parse_input(bytes, overflow_checks)}})

\* The proper prefixes of the byte forms of the events fed.
ProperPrefixes ==
    UNION {{Take(e.bytes, k) : k \in 1 .. Len(e.bytes) - 1} : e \in FedInputs}
        \ {e.bytes : e \in FedInputs}

\* A step of the reader and its source: bytes that arrive only add events to
\* those of the bytes not yet consumed; a step of the reader returns the next
\* of these events or leaves them as they are, however the bytes are split
\* between the source and the buffer; and a parse of a proper prefix of an
\* event's bytes returns (None, 0) and leaves the buffer as it is.
SplitKeepsEvents ==
    /\ IsPrefix(yielded \o EventsOf(buf \o source), yielded' \o EventsOf(buf' \o source'))
    /\ (/\ Len(buf' \o source') <= Len(buf \o source)
        /\ buf' \o source' = Skip(buf \o source, Len(buf \o source) - Len(buf' \o source')))
          => yielded' \o EventsOf(buf' \o source') = yielded \o EventsOf(buf \o source)
    /\ (ilast'.op = "parse" /\ ilast'.bytes \in ProperPrefixes)
          => (ilast'.r = ParseOk(None, 0) /\ buf' = ilast'.bytes)

\* C34: the events the reader returns for a byte stream do not depend on how
\* the stream is split across reads: a buffer holding only a proper prefix of
\* a recognizable sequence parses to (None, 0) and is retained, and when the
\* remaining bytes arrive the event is the one the whole sequence gives.
C34_SplitIndependent == [][SplitKeepsEvents]_vars

\* The buffer held only the first byte of the two-byte character U+00E9, the
\* second still in the source: the parse returned (None, 0) and kept the byte.
C34_Witness ==
    /\ ilast.op = "parse"
    /\ ilast.bytes = <<195>>
    /\ ilast.r = ParseOk(None, 0)
    /\ buf = <<195>>
    /\ source = <<169>>
    /\ yielded = <<>>

---------------------------------------------------------------------------
(* Claims about what poll_event does with buffered bytes *)

\* A step of read_input_from_buf at the start of poll_event: the loop with
\* select is entered only when the buffer gives no complete event; and while
\* events that were read are not yet returned and stdin has no byte more to
\* give, the call does not go on to select and returns the next of them.
BufferedFirst ==
    ppc = "frombuf" =>
        /\ ppc' = "select" => EventsOf(buf) = <<>>
        /\ (source = <<>> /\ Len(yielded) < Len(fed)) =>
              /\ ppc' \in {"frombuf", "idle"}
              /\ ppc' = "idle" =>
                    /\ plast'.res = "Input"
                    /\ yielded' = Take(fed, Len(yielded) + 1)

\* C35: poll_event returns an already-buffered complete input event without
\* waiting for readiness: it blocks in select only when the bytes left in the
\* buffer give no complete event, so the events received in one read are all
\* returned by successive calls even if no further byte ever arrives.
C35_BufferedEventsDelivered == [][BufferedFirst]_vars

---------------------------------------------------------------------------
(* Claims about the exists flag and the SIGWINCH handler *)

\* C36: the process-wide exists flag is set exactly when a Terminal value is
\* live: after a Terminal::new that failed for another reason than a
\* duplicate acquisition (stdin or stdout not a tty, tcgetattr, pipe,
\* sigaction, ioctl, tcsetattr) the flag is clear again, so that a later
\* Terminal::new is not rejected as already existing.
C36_FlagIffLive ==
    /\ TERMINAL_EXISTS <=> terminals # {}
    /\ (last.op = "new" /\ last.res \notin {"Ok", "AlreadyExists"}) => ~TERMINAL_EXISTS
    /\ (last.op = "new" /\ last.res = "AlreadyExists") => last.live

\* C37: the SIGWINCH handler writes only to the write end of the live
\* Terminal's signal pipe: no delivery of the signal, after a drop or between
\* a drop and the next acquisition included, writes a byte to a descriptor
\* that is closed or that has since been reused for another file.
C37_HandlerWritesToLivePipe ==
    /\ ~strayWrite
    /\ last.op = "sigwinch" =>
          /\ last.res = "pipe_w"
          /\ \E t \in terminals : t.wfd = SIGWINCH_PIPE_FD

---------------------------------------------------------------------------
(* input.rs: parse_input on a modified key with any modifier byte *)

\* ESC [ 1 ; m X and ESC [ N ; m ~ with every byte as m, and the bytes of the
\* control mapping.
ModifierInputs ==
    {ModifiedArrowBytes(m, final) : m \in Bytes, final \in {b_A, b_D}}
    \cup {ModifiedSpecialBytes(n, m) : n \in {b_1, b_6}, m \in Bytes}
    \cup {<<b>> : b \in 0 .. 31}

NextModifier == \E bytes \in ModifierInputs : Parse(bytes)

InitSpecModifier ==
    IdleTerm /\ IdleStyle /\ IdleFrame /\ IdleDraw /\ IdleWrite /\ InitInput /\ InitPoll

SpecModifier == InitSpecModifier /\ [][NextModifier]_vars

\* Does parse_input on these bytes evaluate `bytes[4] - b'0'` (lines 301, 343).
ReadsModifier(bytes) ==
    /\ Len(bytes) >= 6
    /\ At(bytes, 0) = b_ESC /\ At(bytes, 1) = b_LBRACKET /\ At(bytes, 3) = b_SEMI
    /\ \/ At(bytes, 2) = b_1 /\ At(bytes, 5) \in {b_A, b_B, b_C, b_D}
       \/ At(bytes, 5) = b_TILDE /\ SpecialCode(At(bytes, 2)) # ""

\* C38: parse_input does no out-of-range arithmetic on any bytes: in
\* ESC [ 1 ; m X and ESC [ N ; m ~ the modifier computation bytes[4] - '0'
\* does not go below zero for any byte m, the control mapping b + 0x60 stays
\* within a byte, and no input makes the parse panic.
C38_NoOutOfRangeArithmetic ==
    ilast.op = "parse_input" =>
        /\ ilast.r.kind # "Panic"
        /\ ReadsModifier(ilast.bytes) => At(ilast.bytes, 4) >= b_0
        /\ (Len(ilast.bytes) = 1 /\ At(ilast.bytes, 0) < 32) =>
               At(ilast.bytes, 0) + 96 <= 255

---------------------------------------------------------------------------
(* Claims about splitting the text of a write and about the extent of cells *)

\* write_str(a) and then, if it returned, write_str(b).
WriteTwice(f, a, b) ==
    Only({IF r.ok THEN write_str(r.f, b) ELSE r : r \in {write_str(f, a)}})

\* Texts to split: plain and wide characters around a style sequence and a
\* newline, two sequences in a row, a sequence nothing ends, and a sequence
\* that is no style's.
SplitTexts ==
    {<<"a">> \o StyleDisplay(Italic) \o <<"a", "LF">>,
     StyleDisplay(Bold) \o <<"W2">> \o StyleDisplay(Italic),
     <<"W2", "LF", "ESC", "[", "0">>,
     <<"BEL", "ESC", "a", "a">>}

\* C39: the writes of a text sink do not depend on how the text is split: for
\* a string s and each of its splits s = a ++ b, a split inside a style
\* sequence included, write_str(a) followed by write_str(b) leaves the frame
\* as the single write_str(s) does (cells, cursor_tail, current_style and the
\* pending sequence), from every frame the writes so far have produced.
C39_WriteSplitIndependent ==
    \A s \in SplitTexts :
        \A k \in 0 .. Len(s) :
            WriteTwice(wframe, Take(s, k), Skip(s, k)) = write_str(wframe, s)

\* Display for TerminalStyle has written the bold sequence in its three
\* write! pieces, and the frame is as after one write of the whole sequence.
C39_Witness ==
    /\ wlast.ok
    /\ wlast.s = <<"m">>
    /\ wlast.escape_sequence = <<"ESC", "[", "0", ";", "1">>
    /\ wframe.escape_sequence = <<>>
    /\ wframe.current_style = Bold
    /\ wframe.data = NoData
    /\ wframe = write_str(with_char_width_estimator(rows_cols(1, 2), "Unicode"),
                          StyleDisplay(Bold)).f

\* C40: after any sequence of writes and compositions the whole extent of
\* every stored cell lies inside the frame: a cell of width w stored at
\* (r, c) has c + w <= size.cols, so that no wide cell straddles the right
\* edge.
C40_ExtentInsideFrame ==
    \A f \in Frames : \A p \in DOMAIN f.data :
        p.col + f.data[p].width <= f.size.cols

====
